---------------------------- MODULE Spec2Model ----------------------------
(***************************************************************************)
(* Line classifiers and record reassemblers of the bank-statement          *)
(* extractor: parsers/boa_parser.py, parsers/citizens_bank_parser.py,      *)
(* parsers/us_bank_parser.py, parsers/chase_parser.py, app.py, and the     *)
(* amount normalizers of new/bob.py and parsers/chase_parser.py.           *)
(*                                                                         *)
(* A text line is a sequence of tokens (the words between blanks); an      *)
(* amount token is spelled out character by character where the code       *)
(* looks at its characters.  Amounts are integers counted in cents.        *)
(***************************************************************************)
EXTENDS Integers, Sequences, FiniteSets, TLC

(***************************************************************************)
(* Bounds                                                                  *)
(***************************************************************************)
\* longest decoration put in front of an amount body ("(", "-", "$")
MaxPre == 2
\* longest decoration put behind an amount body ("+", "-", ")")
MaxSuf == 2
\* pages of one document
MaxPages == 2
\* text lines of one document
MaxLines == 4

(***************************************************************************)
(* Characters and Python's str / float primitives                          *)
(***************************************************************************)
Digits == {"0", "1", "2", "3", "4", "5", "6"}

DigitVal(c) ==
  CASE c = "0" -> 0 [] c = "1" -> 1 [] c = "2" -> 2 [] c = "3" -> 3
    [] c = "4" -> 4 [] c = "5" -> 5 [] c = "6" -> 6

\* str.replace(ch, ''): every occurrence of the character is removed
RECURSIVE Remove(_, _)
Remove(s, ch) ==
  IF s = <<>> THEN <<>>
  ELSE IF Head(s) = ch THEN Remove(Tail(s), ch)
       ELSE <<Head(s)>> \o Remove(Tail(s), ch)

endswith(s, ch) == Len(s) > 0 /\ s[Len(s)] = ch
startswith(s, ch) == Len(s) > 0 /\ s[1] = ch

\* value of a string of decimal digits
RECURSIVE DigitsVal(_)
DigitsVal(s) ==
  IF s = <<>> THEN 0
  ELSE 10 * DigitsVal(SubSeq(s, 1, Len(s) - 1)) + DigitVal(s[Len(s)])

AllDigits(s) == \A i \in 1..Len(s) : s[i] \in Digits

DotAt(s) == IF \E i \in 1..Len(s) : s[i] = "."
            THEN CHOOSE i \in 1..Len(s) : s[i] = "." /\ \A j \in 1..(i - 1) : s[j] # "."
            ELSE 0

\* an unsigned float literal: digits [ "." digits ], at least one digit
IsUnsignedLiteral(s) ==
  LET d == DotAt(s)
      ip == IF d = 0 THEN s ELSE SubSeq(s, 1, d - 1)
      fp == IF d = 0 THEN <<>> ELSE SubSeq(s, d + 1, Len(s))
  IN AllDigits(ip) /\ AllDigits(fp) /\ Len(ip) + Len(fp) > 0

\* cents of an unsigned literal with at most two decimals
UnsignedCents(s) ==
  LET d == DotAt(s)
      ip == IF d = 0 THEN s ELSE SubSeq(s, 1, d - 1)
      fp == IF d = 0 THEN <<>> ELSE SubSeq(s, d + 1, Len(s))
  IN 100 * DigitsVal(ip)
       + (CASE Len(fp) = 0 -> 0
            [] Len(fp) = 1 -> 10 * DigitsVal(fp)
            [] OTHER -> DigitsVal(SubSeq(fp, 1, 2)))

\* float(s): [ok |-> TRUE, v |-> cents] or ok = FALSE for ValueError.
\* One optional sign, then an unsigned literal.
ValueError == [ok |-> FALSE, v |-> 0]
float(s) ==
  LET signed == Len(s) > 0 /\ s[1] \in {"-", "+"}
      body == IF signed THEN Tail(s) ELSE s
  IN IF IsUnsignedLiteral(body)
     THEN [ok |-> TRUE,
           v |-> IF signed /\ s[1] = "-" THEN 0 - UnsignedCents(body)
                 ELSE UnsignedCents(body)]
     ELSE ValueError

(***************************************************************************)
(* parse_amount of new/bob.py                                              *)
(***************************************************************************)
\* parse_amount with "return val" in place of "return -val if is_negative else val"
bob_parse_amount_unsigned(amount_str) ==
  IF amount_str = <<>> THEN 0
  ELSE
    LET clean0 == Remove(Remove(amount_str, ","), " ")
        is_negative == endswith(clean0, "-")
                         \/ (startswith(clean0, "(") /\ endswith(clean0, ")"))
        clean_str == IF is_negative
                     THEN Remove(Remove(Remove(clean0, "-"), "("), ")")
                     ELSE IF endswith(clean0, "+") THEN Remove(clean0, "+")
                     ELSE clean0
        f == float(clean_str)
    IN IF f.ok THEN f.v ELSE 0

bob_parse_amount(amount_str) ==
  IF amount_str = <<>> THEN 0
  ELSE
    LET clean0 == Remove(Remove(amount_str, ","), " ")
        is_negative == endswith(clean0, "-")
                         \/ (startswith(clean0, "(") /\ endswith(clean0, ")"))
        clean_str == IF is_negative
                     THEN Remove(Remove(Remove(clean0, "-"), "("), ")")
                     ELSE IF endswith(clean0, "+") THEN Remove(clean0, "+")
                     ELSE clean0
        f == float(clean_str)
    IN IF f.ok THEN (IF is_negative THEN 0 - f.v ELSE f.v) ELSE 0

(***************************************************************************)
(* parse_amount of parsers/chase_parser.py (same text in app.py)           *)
(***************************************************************************)
chase_parse_amount(amount_str) ==
  IF amount_str = <<>> THEN 0
  ELSE
    LET clean_str == Remove(Remove(Remove(amount_str, "$"), ","), " ")
        f == float(clean_str)
    IN IF f.ok THEN f.v ELSE 0


(***************************************************************************)
(* Tokens of text lines                                                    *)
(***************************************************************************)
\* spelling of the amount-shaped tokens used in the line corpora
Chars(t) ==
  CASE t = "4.50" -> <<"4", ".", "5", "0">>
    [] t = "-5.00" -> <<"-", "5", ".", "0", "0">>
    [] t = "$6.00" -> <<"$", "6", ".", "0", "0">>
    [] t = "1,200.00" -> <<"1", ",", "2", "0", "0", ".", "0", "0">>
    [] t = "25.00" -> <<"2", "5", ".", "0", "0">>
    [] t = "1,000.00" -> <<"1", ",", "0", "0", "0", ".", "0", "0">>
    [] t = "500.00" -> <<"5", "0", "0", ".", "0", "0">>
    [] OTHER -> <<>>

\* \d{2}/\d{2}/\d{2}
Date6 == {"04/01/25", "04/02/25"}
\* \d{2}/\d{2}
Date5 == {"04/01", "04/02", "05/01", "12/31"}
\* /\d{2}: a date whose month was lost
DateFrag == {"/05"}
\* \d+ and \d+\*
Numbers == {"101", "102*"}

\* date.split('/')
split(t) ==
  CASE t = "04/01/25" -> <<"04", "01", "25">>
    [] t = "04/02/25" -> <<"04", "02", "25">>
    [] t = "04/01" -> <<"04", "01">>
    [] t = "04/02" -> <<"04", "02">>
    [] t = "05/01" -> <<"05", "01">>
    [] t = "12/31" -> <<"12", "31">>
    [] t = "/05" -> <<"", "05">>
    [] OTHER -> <<t>>

\* the section keywords a token contains as a substring
Substrings(t) ==
  CASE t = "TotalChecks" -> {"TotalChecks", "Checks"}
    [] t = "Checks(Note" -> {"Checks(Note", "Checks"}
    [] t = "OtherDebits" -> {"OtherDebits", "Debits"}
    [] t = "Deposits&Credits" -> {"Deposits&Credits", "Deposits&Credit"}
    [] t = "Checks Presented" -> {"Checks Presented"}
    [] OTHER -> {t}

\* key in line
In(key, l) == \E i \in 1..Len(l) : key \in Substrings(l[i])

\* first entry of an ordered keyword map whose key occurs in the line, 0 if none
FirstKey(map, l) ==
  IF \E k \in 1..Len(map) : In(map[k].key, l)
  THEN CHOOSE k \in 1..Len(map) :
         In(map[k].key, l) /\ \A j \in 1..(k - 1) : ~In(map[j].key, l)
  ELSE 0

Rec(date, desc, amount, type, page, ref) ==
  [Date |-> date, Description |-> desc, Amount |-> amount, Type |-> type,
   Page |-> page, Ref |-> ref]

Bal(date, amount, page) == [Date |-> date, Balance |-> amount, Page |-> page]

abs(x) == IF x < 0 THEN 0 - x ELSE x

\* d[k] = v on a dict
Put(d, k, v) == [x \in DOMAIN d \cup {k} |-> IF x = k THEN v ELSE d[x]]

\* the empty dict
EmptyDict == [x \in {} |-> 0]

None == 0


(***************************************************************************)
(* State                                                                   *)
(***************************************************************************)
VARIABLES
  bank,             \* which parser runs: "boa", "citizens", "usbank", "chase", "app", "bank2"
  pc,               \* "start", "page_start", "in_page", "done"; "amount" in SpecAmount
  page_num,         \* number of the page being read (idx + 1)
  line,             \* the line the loop body processed last
  current_section,
  last_txn_index,   \* 1-based index into transactions, None = 0
  transactions,
  balances,
  checking_summary, \* rows of the Chase checking summary
  extracted_summary, \* the summary dict: category |-> value
  in_summary,       \* US Bank: where the summary loop of the page is ("no", "yes", "done")
  extraction_seq,   \* US Bank: the counter of the records appended so far
  Extraction_Seq,   \* US Bank: the Extraction_Seq column of the transactions
  nlines,           \* lines read so far
  last_header,      \* history: the section label set by the last header line read
  sealed,           \* history: Len(transactions) when the last header or noise line was read
  opened,           \* history: index of the record the last primary line created, 0 once closed
  amount_str,       \* argument of parse_amount
  result,           \* [fn |-> which parse_amount ran, v |-> what it returned]
  pdf_file,         \* main_app: the upload, "unreadable", "no_pages", "no_text" or "pages"
  page_text,        \* main_app: the phrases found in the text of the first three pages
  bank_name,        \* main_app: what identify_bank returned, "" before the call
  invoked,          \* main_app: the parsers process_pdf has called, in order
  summary_data,     \* main_app: the rows of the account summary comparison
  summary_diffs,    \* main_app: the categories whose difference exceeds the tolerance
  balance_summary_diffs, \* main_app: the balance dates whose difference exceeds it
  verdict,          \* main_app: "none", "PASSED" or "FAILED"
  messages,         \* main_app: what the page shows, in order
  export,           \* main_app: the rows behind the table and the two downloads
  balance_df,       \* main_app: the balance table after the daily balance check
  document,         \* two calls: the pages of the document, each a sequence of lines
  line_idx,         \* two calls: lines of the current page read so far
  run,              \* two calls: 1 during the first call, 2 during the second, 0 elsewhere
  first,            \* two calls: what the first call returned
  wf_text,          \* wells_fargo: the phrases in the text identify_bank is given
  wf_pdf,           \* wells_fargo: the items of the document, in reading order
  wf_pc,            \* wells_fargo: "none", "upload", "regex", "spatial", "other", "returned"
  wf_bank,          \* wells_fargo: what identify_bank returned, "" before the call
  wf_calls,         \* wells_fargo: the strategies process_pdf has run, in order
  wf_regex,         \* wells_fargo: what the regex strategy returned, <<>> before it ran
  wf_spatial,       \* wells_fargo: what the spatial strategy returned, <<>> before it ran
  wf_returned,      \* wells_fargo: what process_pdf returned, <<>> before it returns
  wf_messages       \* wells_fargo: what the page shows, in order

vars == <<bank, pc, page_num, line, current_section, last_txn_index,
          transactions, balances, checking_summary, extracted_summary, in_summary,
          extraction_seq, Extraction_Seq,
          last_header, nlines, sealed, opened, amount_str, result,
          pdf_file, page_text, bank_name, invoked, summary_data, summary_diffs,
          balance_summary_diffs, verdict, messages, export, balance_df,
          document, line_idx, run, first,
          wf_text, wf_pdf, wf_pc, wf_bank, wf_calls, wf_regex, wf_spatial,
          wf_returned, wf_messages>>

wfVars == <<wf_text, wf_pdf, wf_pc, wf_bank, wf_calls, wf_regex, wf_spatial,
            wf_returned, wf_messages>>

runVars == <<document, line_idx, run, first>>

appVars == <<pdf_file, page_text, bank_name, invoked, summary_data, summary_diffs,
             balance_summary_diffs, verdict, messages, export, balance_df>>

parserVars == <<bank, pc, page_num, line, current_section, last_txn_index,
                transactions, balances, checking_summary, extracted_summary, in_summary,
                extraction_seq, Extraction_Seq, last_header, nlines, sealed, opened>>

ParserBanks == {"boa", "citizens", "usbank", "chase"}
Banks == ParserBanks \cup {"app", "bank2"}

NoLine == <<"\n">>

(***************************************************************************)
(* parsers/boa_parser.py                                                   *)
(***************************************************************************)
boa_section_keywords ==
  << [key |-> "Deposits and other credits", name |-> "Deposits"],
     [key |-> "Withdrawals and other debits", name |-> "Withdrawals"],
     [key |-> "Checks", name |-> "Checks"],
     [key |-> "Service fees", name |-> "Service Fees"],
     [key |-> "Daily ledger balances", name |-> "Daily Ledger"] >>

\* -?[\d,]+\.\d{2} spanning the whole token
BoaAmounts == {"4.50", "-5.00", "1,200.00", "25.00"}

\* ignore_regex.search(line): every alternative is anchored at the line start
boa_ignore(l) == Len(l) >= 2 /\ l[1] \in {"Total", "Subtotal"}

\* float(x.replace(',', '')) inside try / except ValueError: 0.0
boa_float(t) ==
  LET f == float(Remove(Chars(t), ",")) IN IF f.ok THEN f.v ELSE 0

\* date_start_pattern.match(line)
boa_date_start(l) == Len(l) >= 2 /\ l[1] \in Date6 /\ l[Len(l)] \in BoaAmounts

\* check_pattern.findall(line), scanning from token i
RECURSIVE boa_check_findall(_, _)
boa_check_findall(l, i) ==
  IF i > Len(l) THEN <<>>
  ELSE IF l[i] \in Date6 /\ i + 2 <= Len(l) /\ l[i + 1] \in Numbers
            /\ l[i + 2] \in BoaAmounts
  THEN <<[date |-> l[i], num |-> l[i + 1], amt |-> l[i + 2]]>>
         \o boa_check_findall(l, i + 3)
  ELSE IF l[i] \in Date6 /\ i + 1 <= Len(l) /\ l[i + 1] \in BoaAmounts
  THEN <<[date |-> l[i], num |-> "", amt |-> l[i + 1]]>>
         \o boa_check_findall(l, i + 2)
  ELSE boa_check_findall(l, i + 1)

\* ledger_pattern.findall(line): \d{2}/\d{2} also matches the tail of MM/DD/YY
RECURSIVE boa_ledger_findall(_, _)
boa_ledger_findall(l, i) ==
  IF i > Len(l) THEN <<>>
  ELSE IF l[i] \in Date5 \cup Date6 /\ i + 1 <= Len(l) /\ l[i + 1] \in BoaAmounts
  THEN <<[date |-> IF l[i] \in Date5 THEN split(l[i]) ELSE Tail(split(l[i])),
          amt |-> l[i + 1]]>>
         \o boa_ledger_findall(l, i + 2)
  ELSE boa_ledger_findall(l, i + 1)

boa_check_records(ms, section, page) ==
  [k \in 1..Len(ms) |->
     Rec(split(ms[k].date),
         IF ms[k].num # "" THEN <<"Check #" \o ms[k].num>> ELSE <<"Check (No #)">>,
         boa_float(ms[k].amt), section, page, "")]

boa_ledger_records(ms, page) ==
  [k \in 1..Len(ms) |-> Bal(ms[k].date, boa_float(ms[k].amt), page)]

\* section detection placed after the transaction test
boa_section_found_late(l) ==
  IF boa_date_start(l) THEN 0 ELSE FirstKey(boa_section_keywords, l)

\* "Detect Section Change": it runs before every other test of the line
boa_section_found(l) == FirstKey(boa_section_keywords, l)

\* the section-change branch without its reset
boa_header_reset_kept == last_txn_index

\* last_txn_index = None  # Reset context, in the section-change branch
boa_header_reset == None

\* last_txn_index = len(transactions) - 2: the record before the new one
boa_new_index_prev == Len(transactions)

\* last_txn_index = len(transactions) - 1, here 1-based
boa_new_index == Len(transactions) + 1

\* "=" in place of "+=": the continuation replaces the description
boa_join_replace(description, clean_line) == clean_line

\* transactions[last_txn_index]["Description"] += " " + clean_line
boa_join(description, clean_line) == description \o clean_line

\* a loop body that lets ignored lines through to the extraction
boa_skip_never(l) == FALSE

\* "if ignore_regex.search(line): ... continue", ahead of the extraction
boa_skip(l) == boa_ignore(l)

\* body of "for line in lines" in parse_boa_statement
parse_boa_line(l) ==
  LET h == boa_section_found(l) IN
  IF h # 0 THEN
    /\ current_section' = boa_section_keywords[h].name
    /\ last_txn_index' = boa_header_reset
    /\ UNCHANGED <<transactions, balances>>
  ELSE IF boa_skip(l) THEN
    /\ last_txn_index' = None
    /\ UNCHANGED <<current_section, transactions, balances>>
  ELSE IF current_section = "Checks" THEN
    LET ms == boa_check_findall(l, 1) IN
    /\ transactions' = transactions \o boa_check_records(ms, current_section, page_num)
    /\ last_txn_index' = IF ms # <<>> THEN None ELSE last_txn_index
    /\ UNCHANGED <<current_section, balances>>
  ELSE IF current_section = "Daily Ledger" THEN
    /\ balances' = balances \o boa_ledger_records(boa_ledger_findall(l, 1), page_num)
    /\ last_txn_index' = None
    /\ UNCHANGED <<current_section, transactions>>
  ELSE IF current_section \in {"Deposits", "Withdrawals", "Service Fees"} THEN
    IF boa_date_start(l) THEN
      /\ transactions' = Append(transactions,
            Rec(split(l[1]), SubSeq(l, 2, Len(l) - 1), boa_float(l[Len(l)]),
                current_section, page_num, ""))
      /\ last_txn_index' = boa_new_index
      /\ UNCHANGED <<current_section, balances>>
    ELSE IF last_txn_index # None /\ l # <<>> THEN
      /\ transactions' = [transactions EXCEPT
                            ![last_txn_index].Description = boa_join(@, l)]
      /\ UNCHANGED <<current_section, last_txn_index, balances>>
    ELSE UNCHANGED <<current_section, last_txn_index, transactions, balances>>
  ELSE UNCHANGED <<current_section, last_txn_index, transactions, balances>>

\* summary_patterns: label, then either blanks only (gap FALSE) or any text
\* and a blank (gap TRUE), then the amount
boa_summary_patterns ==
  << [key |-> "Beginning Balance", label |-> "Beginning balance on", gap |-> TRUE],
     [key |-> "Deposits/Credits", label |-> "Deposits and other credits", gap |-> FALSE],
     [key |-> "Withdrawals/Debits", label |-> "Withdrawals and other debits", gap |-> FALSE],
     [key |-> "Checks", label |-> "Checks", gap |-> FALSE],
     [key |-> "Service Fees", label |-> "Service fees", gap |-> FALSE],
     [key |-> "Ending Balance", label |-> "Ending balance on", gap |-> TRUE] >>

\* the positions <<i, j>> at which a summary pattern matches: label in token i,
\* amount in token j
boa_summary_matches(p, l) ==
  { m \in (1..Len(l)) \X (1..Len(l)) :
      /\ l[m[1]] = p.label
      /\ l[m[2]] \in BoaAmounts
      /\ IF p.gap THEN m[2] > m[1] ELSE m[2] = m[1] + 1 }

\* pattern.search: the leftmost match; "" when there is none
boa_summary_search(p, l) ==
  LET ms == boa_summary_matches(p, l) IN
  IF ms = {} THEN ""
  ELSE l[(CHOOSE m \in ms : \A o \in ms : m[1] < o[1] \/ (m[1] = o[1] /\ m[2] <= o[2]))[2]]

\* float(val_str) after '$' and ',' are removed; 0.0 on ValueError
boa_summary_float(t) ==
  LET f == float(Remove(Remove(Chars(t), "$"), ",")) IN IF f.ok THEN f.v ELSE 0

\* a summary that is read on every page
boa_summary_page_any(idx) == TRUE

\* "if idx == 0": the summary is read on the first page of the document only
boa_summary_page(idx) == idx = 0

\* one more line of the page text under pattern.search(text): the first
\* match of a pattern in the page is the one that counts
RECURSIVE boa_summary_scan(_, _, _)
boa_summary_scan(sm, l, k) ==
  IF k > Len(boa_summary_patterns) THEN sm
  ELSE LET p == boa_summary_patterns[k]
           t == boa_summary_search(p, l)
       IN boa_summary_scan(IF t # "" /\ p.key \notin DOMAIN sm
                           THEN Put(sm, p.key, boa_summary_float(t)) ELSE sm,
                           l, k + 1)

boa_summary_line(l) ==
  extracted_summary' = IF boa_summary_page(page_num - 1)
                       THEN boa_summary_scan(extracted_summary, l, 1)
                       ELSE extracted_summary

BoaLines ==
  { <<"Deposits and other credits">>,
    <<"Withdrawals and other debits">>,
    <<"Checks">>,
    <<"Daily ledger balances">>,
    <<"Total", "04/01/25", "4.50">>,
    <<"04/01/25", "Coffee", "Shop", "4.50">>,
    <<"04/02/25", "Rent", "-5.00">>,
    <<"04/01/25", "Checks", "4.50">>,
    <<"Checks", "25.00">>,
    <<"04/01/25", "101", "25.00", "04/02/25", "4.50">>,
    <<"04/01", "4.50", "04/02", "-5.00">>,
    <<"extra", "note">>,
    <<>> }


(***************************************************************************)
(* parsers/citizens_bank_parser.py                                         *)
(***************************************************************************)
citizens_section_keywords ==
  << [key |-> "Checks(Note", name |-> "Checks"],
     [key |-> "Checks", name |-> "Checks"],
     [key |-> "Debits", name |-> "Debits"],
     [key |-> "Debits(Continued)", name |-> "Debits"],
     [key |-> "OtherDebits", name |-> "Debits"],
     [key |-> "OtherDebits(Continued)", name |-> "Debits"],
     [key |-> "ATM/Purchases", name |-> "Debits"],
     [key |-> "Deposits&Credits", name |-> "Deposits"],
     [key |-> "Deposits&Credits(Continued)", name |-> "Deposits"],
     [key |-> "Deposits&Credit", name |-> "Deposits"],
     [key |-> "DailyBalance", name |-> "Daily Balance"] >>

\* [\d,]+\.\d{2} spanning the whole token
CitizensAmounts == {"4.50", "1,200.00", "25.00"}

\* the digits (and "*") a token ends in: what (\d+\*?)\s can capture from it
TrailNum(t) ==
  CASE t \in Numbers -> t
    [] t \in Date5 \cup Date6 \cup DateFrag -> split(t)[Len(split(t))]
    [] t \in {"25.00", "1,200.00", "-5.00", "$6.00"} -> "00"
    [] t = "4.50" -> "50"
    [] OTHER -> ""

\* parse_amount nested in parse_citizens_bank_statement
citizens_parse_amount(t) ==
  IF t = <<>> THEN 0
  ELSE
    LET clean_str == Remove(Remove(Remove(Remove(Remove(t, "$"), ","), " "), "+"), "-")
        f == float(clean_str)
    IN IF f.ok THEN f.v ELSE 0

\* ignore_regex.search(line): every alternative is anchored at the line start
citizens_ignore(l) ==
  Len(l) >= 1 /\ l[1] \in {"PreviousBalance", "TotalChecks", "CurrentBalance"}

\* check_pattern.findall(line), scanning from token i
RECURSIVE citizens_check_findall(_, _)
citizens_check_findall(l, i) ==
  IF i > Len(l) THEN <<>>
  ELSE IF i + 2 <= Len(l) /\ TrailNum(l[i]) # "" /\ l[i + 1] \in CitizensAmounts
            /\ l[i + 2] \in Date5
  THEN <<[num |-> TrailNum(l[i]), amt |-> l[i + 1], date |-> l[i + 2]]>>
         \o citizens_check_findall(l, i + 3)
  ELSE citizens_check_findall(l, i + 1)

\* balance_pattern.findall(line)
RECURSIVE citizens_balance_findall(_, _)
citizens_balance_findall(l, i) ==
  IF i > Len(l) THEN <<>>
  ELSE IF l[i] \in Date5 \cup Date6 /\ i + 1 <= Len(l) /\ l[i + 1] \in CitizensAmounts
  THEN <<[date |-> IF l[i] \in Date5 THEN split(l[i]) ELSE Tail(split(l[i])),
          amt |-> l[i + 1]]>>
         \o citizens_balance_findall(l, i + 2)
  ELSE citizens_balance_findall(l, i + 1)

\* date_amount_desc_pattern.match(line)
citizens_date_amount_desc(l) ==
  Len(l) >= 3 /\ l[1] \in Date5 /\ l[2] \in CitizensAmounts

\* the year suffix: statement_year[-2:], "25" when the first page names no year
citizens_year == "25"

citizens_check_records(ms, page) ==
  [k \in 1..Len(ms) |->
     Rec(split(ms[k].date) \o <<citizens_year>>,
         IF ms[k].num = "102*" THEN <<"Check #102 (Out of sequence)">>
         ELSE <<"Check #" \o ms[k].num>>,
         0 - abs(citizens_parse_amount(Chars(ms[k].amt))), "Checks", page, "")]

citizens_balance_records(ms, page) ==
  [k \in 1..Len(ms) |->
     Bal(ms[k].date \o <<citizens_year>>, citizens_parse_amount(Chars(ms[k].amt)), page)]

\* the amount as parsed, without the section's sign
citizens_signed_raw(section, amount) == amount

\* "Deposits are positive, Debits are negative"
citizens_signed(section, amount) ==
  IF section = "Deposits" THEN abs(amount) ELSE 0 - abs(amount)

\* any(x in clean_line.upper() for x in ['DATE', 'AMOUNT', 'DESCRIPTION', 'TOTAL', 'CONTINUED'])
citizens_stop_word(l) ==
  \E i \in 1..Len(l) : l[i] \in {"Date", "Amount", "Description", "Total", "TotalChecks", "Continued"}

\* a test that takes no line for check data
looks_like_check_data_never(l) == FALSE

\* looks_like_check_data = bool(check_pattern.search(line))
looks_like_check_data(l) == citizens_check_findall(l, 1) # <<>>

\* body of "for line in lines" in parse_citizens_bank_statement
parse_citizens_line(l) ==
  LET h == IF looks_like_check_data(l) THEN 0 ELSE FirstKey(citizens_section_keywords, l)
  IN
  IF l = <<>> THEN UNCHANGED <<current_section, last_txn_index, transactions, balances>>
  ELSE IF h # 0 THEN
    /\ current_section' = citizens_section_keywords[h].name
    /\ last_txn_index' = None
    /\ UNCHANGED <<transactions, balances>>
  ELSE IF citizens_ignore(l) THEN
    /\ last_txn_index' = None
    /\ UNCHANGED <<current_section, transactions, balances>>
  ELSE IF current_section = "Checks" THEN
    LET ms == citizens_check_findall(l, 1) IN
    /\ transactions' = transactions \o citizens_check_records(ms, page_num)
    /\ last_txn_index' = IF ms # <<>> THEN None ELSE last_txn_index
    /\ UNCHANGED <<current_section, balances>>
  ELSE IF current_section = "Daily Balance" THEN
    /\ balances' = balances
                     \o citizens_balance_records(citizens_balance_findall(l, 1), page_num)
    /\ last_txn_index' = None
    /\ UNCHANGED <<current_section, transactions>>
  ELSE IF current_section \in {"Deposits", "Debits"} THEN
    IF citizens_date_amount_desc(l) THEN
      /\ transactions' = Append(transactions,
            Rec(split(l[1]) \o <<citizens_year>>, SubSeq(l, 3, Len(l)),
                citizens_signed(current_section, citizens_parse_amount(Chars(l[2]))),
                current_section, page_num, ""))
      /\ last_txn_index' = Len(transactions) + 1
      /\ UNCHANGED <<current_section, balances>>
    ELSE IF last_txn_index # None /\ ~citizens_stop_word(l) THEN
      /\ transactions' = [transactions EXCEPT ![last_txn_index].Description = @ \o l]
      /\ UNCHANGED <<current_section, last_txn_index, balances>>
    ELSE UNCHANGED <<current_section, last_txn_index, transactions, balances>>
  ELSE UNCHANGED <<current_section, last_txn_index, transactions, balances>>

CitizensLines ==
  { <<"Deposits&Credits">>,
    <<"Debits">>,
    <<"Checks">>,
    <<"DailyBalance">>,
    <<"PreviousBalance", "25.00">>,
    <<"04/01", "25.00", "Coffee", "Shop">>,
    <<"04/02", "4.50", "Rent">>,
    <<"04/02", "4.50", "Debits">>,
    <<"101", "25.00", "04/01", "102*", "4.50", "04/02", "TotalChecks">>,
    <<"04/01", "25.00", "04/02", "4.50">>,
    <<"extra", "note">>,
    <<"Total", "fees">>,
    <<>> }


(***************************************************************************)
(* parsers/us_bank_parser.py                                               *)
(***************************************************************************)
us_section_keywords ==
  << [key |-> "Customer Deposits", name |-> "Customer Deposits"],
     [key |-> "Other Deposits", name |-> "Other Deposits"],
     [key |-> "Card Deposits", name |-> "Card Deposits"],
     [key |-> "Card Withdrawals", name |-> "Card Withdrawals"],
     [key |-> "Other Withdrawals", name |-> "Other Withdrawals"],
     [key |-> "Checks Paid", name |-> "Checks Paid"],
     [key |-> "Checks Presented", name |-> "Checks Paid"],
     [key |-> "Checks Presented Conventionally", name |-> "Checks Paid"],
     [key |-> "Balance Summary", name |-> "Balance Summary"] >>

Months == {"Apr"}
month_map(m) == CASE m = "Apr" -> "04" [] OTHER -> "01"
\* \d{1,2}
Days == {"1", "2"}
zfill2(d) == CASE d = "1" -> "01" [] d = "2" -> "02" [] OTHER -> d
\* [A-Z0-9_\-]{8,}
RefTokens == {"REF12345"}
\* [\d,]+\.\d{2} spanning the whole token
UsAmounts == {"4.50", "1,200.00", "25.00"}

\* the year suffix: statement_year[-2:], "25" when no "Statement Period:" was seen
us_year == "25"

us_date(m, d) == <<month_map(m), zfill2(d), us_year>>

\* float(amount_str) inside try / except ValueError: 0.0, after replace(',', '')
us_float(t) == LET f == float(Remove(Chars(t), ",")) IN IF f.ok THEN f.v ELSE 0

\* ignore_regex.search(line): every alternative is anchored at the line start
us_ignore(l) == Len(l) >= 2 /\ l[1] \in {"Total", "Subtotal"}

\* customer_deposit_pattern.findall(line.strip())
RECURSIVE us_customer_deposit_findall(_, _)
us_customer_deposit_findall(l, i) ==
  IF i > Len(l) THEN <<>>
  ELSE IF i + 3 <= Len(l) /\ l[i] \in Months /\ l[i + 1] \in Days
            /\ l[i + 2] \in RefTokens \cup {"101"} \cup Days /\ l[i + 3] \in UsAmounts
  THEN <<[month |-> l[i], day |-> l[i + 1], ref |-> l[i + 2], amt |-> l[i + 3]]>>
         \o us_customer_deposit_findall(l, i + 4)
  ELSE us_customer_deposit_findall(l, i + 1)

\* check_pattern.findall(line.strip())
RECURSIVE us_check_findall(_, _)
us_check_findall(l, i) ==
  IF i > Len(l) THEN <<>>
  ELSE IF i + 4 <= Len(l) /\ l[i] \in Numbers /\ l[i + 1] \in Months /\ l[i + 2] \in Days
            /\ l[i + 3] \in RefTokens \cup {"101"} \cup Days /\ l[i + 4] \in UsAmounts
  THEN <<[num |-> l[i], month |-> l[i + 1], day |-> l[i + 2], ref |-> l[i + 3],
          amt |-> l[i + 4]]>>
         \o us_check_findall(l, i + 5)
  ELSE us_check_findall(l, i + 1)

\* balance_pattern.findall(line)
RECURSIVE us_balance_findall(_, _)
us_balance_findall(l, i) ==
  IF i > Len(l) THEN <<>>
  ELSE IF i + 2 <= Len(l) /\ l[i] \in Months /\ l[i + 1] \in Days /\ l[i + 2] \in UsAmounts
  THEN <<[month |-> l[i], day |-> l[i + 1], amt |-> l[i + 2]]>>
         \o us_balance_findall(l, i + 3)
  ELSE us_balance_findall(l, i + 1)

\* deposit_pattern / card_deposit_pattern / card_withdrawal_pattern /
\* other_withdrawal_pattern .match(line.strip()): Mon D description [$] amount
us_txn_match(l) ==
  Len(l) >= 4 /\ l[1] \in Months /\ l[2] \in Days /\ l[Len(l)] \in UsAmounts

\* match.group(3).strip(): the lazy description leaves a separate "$" out
us_description_and_ref(l) ==
  IF Len(l) >= 5 /\ l[Len(l) - 1] = "$" THEN SubSeq(l, 3, Len(l) - 2)
  ELSE SubSeq(l, 3, Len(l) - 1)

\* the trailing reference number is split off the description
us_split_ref(d) ==
  IF Len(d) >= 2 /\ d[Len(d)] \in RefTokens
  THEN [description |-> SubSeq(d, 1, Len(d) - 1), ref |-> d[Len(d)]]
  ELSE [description |-> d, ref |-> ""]

\* re.match(r'^(Jan|...|Dec)\s+\d', clean_line)
us_starts_with_date(l) ==
  Len(l) >= 2 /\ l[1] \in Months /\ l[2] \in Days \cup Numbers \cup UsAmounts

\* clean_line.startswith('$')
us_starts_with_dollar(l) == Len(l) >= 1 /\ l[1] \in {"$", "$6.00"}

us_new_record(l, type, sign, with_ref) ==
  LET d == us_description_and_ref(l)
      sp == IF with_ref THEN us_split_ref(d) ELSE [description |-> d, ref |-> ""]
  IN Rec(us_date(l[1], l[2]), sp.description, sign * us_float(l[Len(l)]),
         type, page_num, sp.ref)

\* the four single-line sections: a primary line opens a record, any other
\* line may continue the open one
us_single_section(l, type, sign, with_ref) ==
  IF us_txn_match(l) THEN
    /\ transactions' = Append(transactions, us_new_record(l, type, sign, with_ref))
    /\ last_txn_index' = Len(transactions) + 1
    /\ UNCHANGED <<current_section, balances>>
  ELSE IF last_txn_index # None /\ ~us_starts_with_dollar(l)
          /\ type = "Card Deposits" /\ l[1] = "Serial No."
  THEN
    /\ transactions' =
         IF transactions[last_txn_index].Ref = ""
         THEN [transactions EXCEPT ![last_txn_index].Ref =
                 IF Len(l) >= 2 THEN l[2] ELSE ""]
         ELSE [transactions EXCEPT ![last_txn_index].Description = @ \o l]
    /\ UNCHANGED <<current_section, last_txn_index, balances>>
  ELSE IF last_txn_index # None /\ ~us_starts_with_dollar(l)
          /\ (l[1] \in {"On", "REF="} \/ ~us_starts_with_date(l))
  THEN
    /\ transactions' = [transactions EXCEPT ![last_txn_index].Description = @ \o l]
    /\ UNCHANGED <<current_section, last_txn_index, balances>>
  ELSE UNCHANGED <<current_section, last_txn_index, transactions, balances>>

\* body of "for line in lines" in parse_us_bank_statement
parse_us_line(l) ==
  LET h == FirstKey(us_section_keywords, l) IN
  IF h # 0 THEN
    /\ current_section' = us_section_keywords[h].name
    /\ last_txn_index' = None
    /\ UNCHANGED <<transactions, balances>>
  ELSE IF us_ignore(l) THEN
    /\ last_txn_index' = None
    /\ UNCHANGED <<current_section, transactions, balances>>
  ELSE IF l = <<>> THEN
    UNCHANGED <<current_section, last_txn_index, transactions, balances>>
  ELSE IF current_section = "Customer Deposits" THEN
    LET ms == us_customer_deposit_findall(l, 1) IN
    /\ transactions' = transactions \o
         [k \in 1..Len(ms) |->
            Rec(us_date(ms[k].month, ms[k].day), <<"Customer", "Deposit">>,
                us_float(ms[k].amt), "Customer Deposits", page_num, ms[k].ref)]
    /\ UNCHANGED <<current_section, last_txn_index, balances>>
  ELSE IF current_section = "Other Deposits" THEN
    us_single_section(l, "Other Deposits", 1, TRUE)
  ELSE IF current_section = "Card Deposits" THEN
    us_single_section(l, "Card Deposits", 1, FALSE)
  ELSE IF current_section = "Card Withdrawals" THEN
    us_single_section(l, "Card Withdrawals", -1, TRUE)
  ELSE IF current_section = "Other Withdrawals" THEN
    us_single_section(l, "Other Withdrawals", -1, TRUE)
  ELSE IF current_section = "Checks Paid" THEN
    LET ms == us_check_findall(l, 1) IN
    /\ transactions' = transactions \o
         [k \in 1..Len(ms) |->
            Rec(us_date(ms[k].month, ms[k].day), <<"Check #" \o ms[k].num>>,
                0 - us_float(ms[k].amt), "Checks Paid", page_num, ms[k].ref)]
    /\ UNCHANGED <<current_section, last_txn_index, balances>>
  ELSE IF current_section = "Balance Summary" THEN
    IF us_check_findall(l, 1) # <<>> THEN
      UNCHANGED <<current_section, last_txn_index, transactions, balances>>
    ELSE
      LET ms == us_balance_findall(l, 1) IN
      /\ balances' = balances \o
           [k \in 1..Len(ms) |->
              Bal(us_date(ms[k].month, ms[k].day), us_float(ms[k].amt), page_num)]
      /\ UNCHANGED <<current_section, last_txn_index, transactions>>
  ELSE UNCHANGED <<current_section, last_txn_index, transactions, balances>>

\* one compiled pattern of summary_patterns:
\*   total    "Total " stands before the label
\*   start    the pattern is anchored with ^ and $
\*   count    \s+\d+ follows the label
\*   dollar   a "$" stands before the amount
\*   gap      .*? stands between the label and the amount
UsPat(label, total, start, count, dollar, gap) ==
  [label |-> label, total |-> total, start |-> start, count |-> count,
   dollar |-> dollar, gap |-> gap]

us_balance_patterns(name) ==
  << UsPat(name \o " on", FALSE, FALSE, FALSE, TRUE, TRUE),
     UsPat(name, FALSE, FALSE, FALSE, FALSE, TRUE) >>

us_deposit_patterns(name) ==
  << UsPat(name, TRUE, FALSE, FALSE, TRUE, FALSE),
     UsPat(name, FALSE, TRUE, TRUE, FALSE, FALSE),
     UsPat(name, FALSE, TRUE, TRUE, TRUE, FALSE) >>

us_withdrawal_patterns(name) ==
  << UsPat(name, FALSE, FALSE, TRUE, FALSE, FALSE),
     UsPat(name, FALSE, FALSE, TRUE, TRUE, FALSE),
     UsPat(name, FALSE, FALSE, FALSE, FALSE, TRUE) >>

us_summary_patterns ==
  << [key |-> "Beginning Balance", patterns |-> us_balance_patterns("Beginning Balance")],
     [key |-> "Customer Deposits", patterns |-> us_deposit_patterns("Customer Deposits")],
     [key |-> "Other Deposits", patterns |-> us_deposit_patterns("Other Deposits")],
     [key |-> "Card Deposits", patterns |-> us_deposit_patterns("Card Deposits")],
     [key |-> "Card Withdrawals", patterns |-> us_withdrawal_patterns("Card Withdrawals")],
     [key |-> "Other Withdrawals", patterns |-> us_withdrawal_patterns("Other Withdrawals")],
     [key |-> "Checks Paid", patterns |-> us_withdrawal_patterns("Checks Paid")],
     [key |-> "Ending Balance", patterns |-> us_balance_patterns("Ending Balance")] >>

\* $ joined to the amount it stands before
UsDollarAmounts == {"$25.00"}

\* the positions <<i, j>> at which a pattern matches: label in token i,
\* amount in token j
us_summary_matches(p, l) ==
  { m \in (1..Len(l)) \X (1..Len(l)) :
      LET i == m[1]
          j == m[2]
          c == IF p.count THEN 1 ELSE 0
      IN /\ l[i] = p.label
         /\ p.total => (i > 1 /\ l[i - 1] = "Total")
         /\ p.start => (i = 1 /\ j = Len(l))
         /\ p.count => (i + 1 <= Len(l) /\ l[i + 1] \in Days \cup {"101", "123"})
         /\ l[j] \in (IF p.dollar /\ ~p.gap THEN UsDollarAmounts ELSE UsAmounts)
         /\ (p.dollar /\ p.gap) => (j > i + 1 /\ l[j - 1] = "$")
         /\ IF p.gap THEN j > i ELSE j = i + c + 1 }

\* pattern.search(line).group(1): the leftmost match; "" when there is none
us_summary_search(p, l) ==
  LET ms == us_summary_matches(p, l) IN
  IF ms = {} THEN ""
  ELSE l[(CHOOSE m \in ms : \A o \in ms : m[1] < o[1] \/ (m[1] = o[1] /\ m[2] <= o[2]))[2]]

\* the first pattern of the list that matches the line, 0 if none
us_first_pattern(ps, l) ==
  IF \E k \in 1..Len(ps) : us_summary_search(ps[k], l) # ""
  THEN CHOOSE k \in 1..Len(ps) :
         us_summary_search(ps[k], l) # "" /\ \A j \in 1..(k - 1) : us_summary_search(ps[j], l) = ""
  ELSE 0

\* float(match.group(1).replace(',', ''))
us_summary_float(t) ==
  LET f == float(Remove(Remove(Chars(t), "$"), ",")) IN IF f.ok THEN f.v ELSE 0

\* a store in which a later match replaces the value
us_summary_store_last(sm, key, v) == Put(sm, key, v)

\* "if key in extracted_summary: continue", else extracted_summary[key] = val
us_summary_store(sm, key, v) == IF key \in DOMAIN sm THEN sm ELSE Put(sm, key, v)

\* "for key, patterns in summary_patterns.items()" on one line
RECURSIVE us_summary_scan(_, _, _)
us_summary_scan(sm, l, k) ==
  IF k > Len(us_summary_patterns) THEN sm
  ELSE LET e == us_summary_patterns[k]
           n == us_first_pattern(e.patterns, l)
       IN us_summary_scan(IF n # 0
                          THEN us_summary_store(sm, e.key,
                                 us_summary_float(us_summary_search(e.patterns[n], l)))
                          ELSE sm,
                          l, k + 1)

us_summary_end_markers ==
  {"Date Description", "Card Number", "Check Number", "Analysis", "Service Activity"}

\* the summary loop of a page meets one more line: in_summary is "no" before
\* the "Account Summary" line, "yes" from it on, "done" after the break
us_in_summary(l) ==
  IF in_summary = "done" THEN "done"
  ELSE IF In("Account Summary", l) THEN "yes"
  ELSE IF in_summary = "yes" /\ \E i \in 1..Len(l) : l[i] \in us_summary_end_markers THEN "done"
  ELSE in_summary

us_summary_line(l) ==
  /\ in_summary' = us_in_summary(l)
  /\ extracted_summary' = IF us_in_summary(l) = "yes"
                          THEN us_summary_scan(extracted_summary, l, 1)
                          ELSE extracted_summary

UsLines ==
  { <<"Customer Deposits">>,
    <<"Other Deposits">>,
    <<"Card Deposits">>,
    <<"Card Withdrawals">>,
    <<"Other Withdrawals">>,
    <<"Checks Paid">>,
    <<"Balance Summary">>,
    <<"Account Summary">>,
    <<"Check Number">>,
    <<"Checks Paid", "2", "25.00">>,
    <<"Checks Paid", "4.50">>,
    <<"Total", "Other Deposits", "25.00">>,
    <<"Total", "fees">>,
    <<"Apr", "1", "Wire", "REF12345", "25.00">>,
    <<"Apr", "2", "REF12345", "4.50">>,
    <<"101", "Apr", "1", "REF12345", "25.00">>,
    <<"Apr", "1", "25.00", "Apr", "2", "4.50">>,
    <<"Apr", "1", "REF12345", "25.00", "Apr", "2", "REF12345", "4.50">>,
    <<"Serial No.", "123">>,
    <<"extra", "note">>,
    <<>> }


(***************************************************************************)
(* parsers/chase_parser.py                                                 *)
(***************************************************************************)
\* the if / elif chain of section headers, in its order
chase_section_keywords ==
  << [key |-> "CHECKING SUMMARY", name |-> "Checking Summary"],
     [key |-> "DEPOSITS AND ADDITIONS", name |-> "Deposit"],
     [key |-> "CHECKS PAID", name |-> "Checks Paid"],
     [key |-> "ATM & DEBIT CARD WITHDRAWALS", name |-> "ATM & Debit Withdrawal"],
     [key |-> "ELECTRONIC WITHDRAWALS", name |-> "Electronic Withdrawal"],
     [key |-> "OTHER WITHDRAWALS", name |-> "Other Withdrawal"],
     [key |-> "FEES", name |-> "Fee"],
     [key |-> "DAILY ENDING BALANCE", name |-> "Daily Ending Balance"] >>

\* current_section = None
NoSection == "None"

\* -?\$?[\d,]+\.\d{2} spanning the whole token
ChaseAmounts == {"4.50", "-5.00", "$6.00", "1,200.00", "25.00"}

\* \d{0,2}/\d{2} followed by a blank; of MM/DD/YY it takes the tail DD/YY
ChaseDates == Date5 \cup DateFrag \cup Date6
chase_date(t) == IF t \in Date6 THEN Tail(split(t)) ELSE split(t)

TwoDigit ==
  << "01", "02", "03", "04", "05", "06", "07", "08", "09", "10",
     "11", "12", "13", "14", "15", "16", "17", "18", "19", "20",
     "21", "22", "23", "24", "25", "26", "27", "28", "29", "30", "31" >>

\* int(s) of a two-digit string
int(s) == CHOOSE n \in 1..Len(TwoDigit) : TwoDigit[n] = s

\* int(count) of a count column
NumVal(t) == CASE t = "1" -> 1 [] t = "2" -> 2 [] t = "101" -> 101 [] OTHER -> 0

\* the global noise filters at the top of the loop body
chase_noise(l) ==
  \/ \E i \in 1..Len(l) : l[i] \in {"*start*", "*end*", "Total Checks Paid", "%%WM"}
  \/ Len(l) >= 1 /\ l[1] = "WM"

\* "Page" in line or "Account Number" in line or "Opening Balance" in line
chase_page_skip(l) ==
  \E i \in 1..Len(l) : l[i] \in {"Page", "Account Number", "Opening Balance"}

\* the token ends in digits followed by a blank: what (\d+)\s+ captures
chase_trail_digits(t) == IF t = "102*" THEN "" ELSE TrailNum(t)

\* re.match(r'^\d+', line)
StartsWithDigit(l) ==
  Len(l) >= 1 /\ l[1] \in Numbers \cup Days \cup Date5 \cup Date6
                            \cup {"4.50", "25.00", "1,200.00"}

\* re.match(r'\d{2}/\d{2}', line)
StartsWithDate(l) == Len(l) >= 1 /\ l[1] \in Date5 \cup Date6

\* summary_pattern.match(line): label, optional count, amount
chase_summary_match(l) == Len(l) >= 2 /\ l[Len(l)] \in ChaseAmounts

chase_summary_row(l) ==
  LET has_count == Len(l) >= 3 /\ l[Len(l) - 1] \in Days \cup {"101"} IN
  [Description |-> IF has_count THEN SubSeq(l, 1, Len(l) - 2) ELSE SubSeq(l, 1, Len(l) - 1),
   Count |-> IF has_count THEN NumVal(l[Len(l) - 1]) ELSE 0,
   Amount |-> chase_parse_amount(Chars(l[Len(l)]))]

\* balance_pattern.findall(line)
RECURSIVE chase_balance_findall(_, _)
chase_balance_findall(l, i) ==
  IF i > Len(l) THEN <<>>
  ELSE IF l[i] \in ChaseDates /\ i + 1 <= Len(l) /\ l[i + 1] \in ChaseAmounts
  THEN <<[date |-> chase_date(l[i]), amt |-> l[i + 1]]>> \o chase_balance_findall(l, i + 2)
  ELSE chase_balance_findall(l, i + 1)

\* the repair without "if new_month > 12: new_month = 1"
chase_balance_date_nowrap(bals, date) ==
  IF date[1] = "" THEN
    IF bals # <<>> THEN
      LET last_date == bals[Len(bals)].Date
          last_month == last_date[1]
          cur_d == int(date[2])
          lst_d == int(last_date[2])
          lst_m == int(last_month)
      IN IF cur_d < lst_d
         THEN <<TwoDigit[lst_m + 1], date[2]>>
         ELSE <<last_month, date[2]>>
    ELSE <<"04", date[2]>>
  ELSE
    IF bals # <<>>
    THEN <<TwoDigit[int(bals[Len(bals)].Date[1])], date[2]>>
    ELSE date

\* the date of a balance entry after the repair against the previous entry
chase_balance_date(bals, date) ==
  IF date[1] = "" THEN
    IF bals # <<>> THEN
      LET last_date == bals[Len(bals)].Date
          last_month == last_date[1]
          cur_d == int(date[2])
          lst_d == int(last_date[2])
          lst_m == int(last_month)
      IN IF cur_d < lst_d
         THEN <<TwoDigit[IF lst_m + 1 > 12 THEN 1 ELSE lst_m + 1], date[2]>>
         ELSE <<last_month, date[2]>>
    ELSE <<"04", date[2]>>
  ELSE
    IF bals # <<>>
    THEN <<TwoDigit[int(bals[Len(bals)].Date[1])], date[2]>>
    ELSE date

\* for date, amount_str in matches: ... balances.append(...)
RECURSIVE chase_add_balances(_, _, _)
chase_add_balances(bals, ms, page) ==
  IF ms = <<>> THEN bals
  ELSE chase_add_balances(
         Append(bals, Bal(chase_balance_date(bals, Head(ms).date),
                          chase_parse_amount(Chars(Head(ms).amt)), page)),
         Tail(ms), page)

\* check_pattern.search(line): [i |-> check number token, j |-> date token], i = 0 if none
chase_check_search(l) ==
  LET ok(i, j) == /\ chase_trail_digits(l[i]) # "" /\ j >= i + 2 /\ j + 1 <= Len(l)
                  /\ l[j] \in ChaseDates /\ l[j + 1] \in ChaseAmounts
      D == 1..Len(l)
  IN IF \E i \in D, j \in D : ok(i, j)
     THEN LET i0 == CHOOSE i \in D : (\E j \in D : ok(i, j))
                       /\ \A i2 \in 1..(i - 1) : ~\E j \in D : ok(i2, j)
              j0 == CHOOSE j \in D : ok(i0, j) /\ \A j2 \in 1..(j - 1) : ~ok(i0, j2)
          IN [i |-> i0, j |-> j0]
     ELSE [i |-> 0, j |-> 0]

\* date_pattern.match(line) or date_pattern.search(line):
\* [i |-> date token, j |-> amount token], i = 0 if none
chase_date_search(l) ==
  LET ok(i, j) == l[i] \in ChaseDates /\ j >= i + 2 /\ l[j] \in ChaseAmounts
      D == 1..Len(l)
  IN IF \E i \in D, j \in D : ok(i, j)
     THEN LET i0 == CHOOSE i \in D : (\E j \in D : ok(i, j))
                       /\ \A i2 \in 1..(i - 1) : ~\E j \in D : ok(i2, j)
              j0 == CHOOSE j \in D : ok(i0, j) /\ \A j2 \in (j + 1)..Len(l) : ~ok(i0, j2)
          IN [i |-> i0, j |-> j0]
     ELSE [i |-> 0, j |-> 0]

\* the repair with "01" as the fallback month
chase_fix_date_jan(date) ==
  IF date[1] = ""
  THEN IF transactions # <<>>
       THEN <<transactions[Len(transactions)].Date[1], date[2]>>
       ELSE <<"01", date[2]>>
  ELSE date

\* a date that lost its month takes the month of the last transaction, else "04"
chase_fix_date(date) ==
  IF date[1] = ""
  THEN IF transactions # <<>>
       THEN <<transactions[Len(transactions)].Date[1], date[2]>>
       ELSE <<"04", date[2]>>
  ELSE date

\* transactions[-1]["Description"].replace(" DATE AMOUNT", "") when it ends so
chase_strip_date_amount(desc) ==
  IF Len(desc) >= 2 /\ desc[Len(desc)] = "DATE AMOUNT"
  THEN <<desc[1]>> \o SelectSeq(Tail(desc), LAMBDA w : w # "DATE AMOUNT")
  ELSE desc

\* the header / footer junk a continuation candidate is tested for first
chase_junk(l) ==
  \/ \E i \in 1..Len(l) : l[i] \in {"DATE DESCRIPTION", "DATE AMOUNT", "CHECK NO.", "Account Number"}
  \/ (l # <<>> /\ \A i \in 1..Len(l) : l[i] \in {"101"} \cup Days)

\* fee explanations, bullet lines and tracking ids, tested after the cleanup
chase_fee_noise(l) ==
  \E i \in 1..Len(l) : l[i] \in {"Excess Transaction Fees", "You can use", "Monthly Service Fee of either"}

chase_tracking_id(l) == \E i \in 1..Len(l) : l[i] \in {"123-ABC"}

chase_bullets(l) == l # <<>> /\ \A i \in 1..Len(l) : l[i] \in {"^", "*", "-"}

\* a test that lets a line reach a record of another section
chase_record_closed_page(last) == last.Page # page_num

\* the last record is of another page or of another section: the two
\* "continue" tests that open the multi-line description branch
chase_record_closed(last) == last.Page # page_num \/ current_section # last.Type

\* the multi-line description branch of parse_chase_statement
chase_continuation(l) ==
  LET last == transactions[Len(transactions)]
      cleaned == chase_strip_date_amount(last.Description)
  IN
  IF chase_record_closed(last)
     \/ ((\E i \in 1..Len(l) : l[i] \in {"$", "$6.00"}) /\ In("Balance", l))
     \/ chase_junk(l)
  THEN UNCHANGED transactions
  ELSE IF chase_fee_noise(l) \/ cleaned = l
          \/ (In("Monthly Service Fee", cleaned) /\ In("Monthly Service Fee", l))
          \/ chase_bullets(l) \/ chase_tracking_id(l)
  THEN transactions' = [transactions EXCEPT ![Len(transactions)].Description = cleaned]
  ELSE transactions' = [transactions EXCEPT ![Len(transactions)].Description =
                          cleaned \o (IF l = <<>> THEN <<"">> ELSE l)]

\* the date pattern is tried in every section but "Daily Ending Balance"
chase_no_date_sections_short == {"Checks Paid", "Checking Summary"}

\* if current_section not in ["Checks Paid", "Daily Ending Balance", "Checking Summary"]
chase_no_date_sections == {"Checks Paid", "Daily Ending Balance", "Checking Summary"}

\* a dated line gives a record whether or not a header was seen
chase_section_any == TRUE

\* "and current_section" of "if match and current_section": None is falsy,
\* every label is a non-empty string
chase_section_set == current_section # NoSection

\* body of "for line in lines" in parse_chase_statement
parse_chase_line(l) ==
  LET h == FirstKey(chase_section_keywords, l)
      same == UNCHANGED <<current_section, last_txn_index, transactions, balances,
                          checking_summary>>
  IN
  IF chase_noise(l) THEN same
  ELSE IF h # 0 THEN
    /\ current_section' = chase_section_keywords[h].name
    /\ UNCHANGED <<last_txn_index, transactions, balances, checking_summary>>
  ELSE IF chase_page_skip(l) /\ current_section # "Checking Summary" THEN same
  ELSE IF current_section = "Checking Summary" THEN
    IF ~In("Account Number", l) /\ chase_summary_match(l)
       /\ ~In("Page", chase_summary_row(l).Description)
    THEN /\ checking_summary' = Append(checking_summary, chase_summary_row(l))
         /\ UNCHANGED <<current_section, last_txn_index, transactions, balances>>
    ELSE same
  ELSE IF current_section = "Daily Ending Balance" /\ chase_balance_findall(l, 1) # <<>> THEN
    /\ balances' = chase_add_balances(balances, chase_balance_findall(l, 1), page_num)
    /\ UNCHANGED <<current_section, last_txn_index, transactions, checking_summary>>
  ELSE IF current_section = "Checks Paid" /\ chase_check_search(l).i # 0 THEN
    LET m == chase_check_search(l) IN
    /\ transactions' = Append(transactions,
          Rec(chase_fix_date(chase_date(l[m.j])),
              <<"Check #" \o chase_trail_digits(l[m.i])>> \o SubSeq(l, m.i + 1, m.j - 1),
              abs(chase_parse_amount(Chars(l[m.j + 1]))),
              current_section, page_num, ""))
    /\ UNCHANGED <<current_section, last_txn_index, balances, checking_summary>>
  ELSE IF current_section \notin chase_no_date_sections /\ chase_date_search(l).i # 0
          /\ chase_section_set THEN
    LET m == chase_date_search(l) IN
    /\ transactions' = Append(transactions,
          Rec(chase_fix_date(chase_date(l[m.i])), SubSeq(l, m.i + 1, m.j - 1),
              abs(chase_parse_amount(Chars(l[m.j]))),
              current_section, page_num, ""))
    /\ UNCHANGED <<current_section, last_txn_index, balances, checking_summary>>
  ELSE IF transactions # <<>> /\ ~StartsWithDate(l)
          /\ ~(current_section = "Checks Paid" /\ StartsWithDigit(l))
          /\ current_section \notin {"Daily Ending Balance", "Checking Summary"} THEN
    /\ chase_continuation(l)
    /\ UNCHANGED <<current_section, last_txn_index, balances, checking_summary>>
  ELSE same

\* the words of the category tests that str(row['Description']).lower() holds
\* for one token of a label
LowerWords(t) ==
  CASE t = "Beginning" -> {"beginning"}
    [] t = "Opening Balance" -> {"opening"}
    [] t = "Coffee" -> {"fee"}
    [] t = "Fees" -> {"fee"}
    [] t = "Withdrawals" -> {"withdrawal"}
    [] OTHER -> {}

has_word(desc, w) == \E i \in 1..Len(desc) : w \in LowerWords(desc[i])

\* the if / elif chain over the label of a summary row; "" when no test holds
chase_summary_key(desc) ==
  IF has_word(desc, "opening") \/ has_word(desc, "beginning") THEN "Beginning Balance"
  ELSE IF has_word(desc, "closing") \/ has_word(desc, "ending") THEN "Ending Balance"
  ELSE IF has_word(desc, "deposit") \/ has_word(desc, "additions") THEN "Deposits"
  ELSE IF has_word(desc, "withdrawal") \/ has_word(desc, "debit") THEN "Withdrawals"
  ELSE IF has_word(desc, "check") THEN "Checks"
  ELSE IF has_word(desc, "fee") THEN "Fees"
  ELSE ""

\* a summary in which a withdrawal row replaces the value of the one before
chase_summary_put_last(sm, row) ==
  LET key == chase_summary_key(row.Description) IN
  IF key = "" THEN sm
  ELSE IF key \in {"Beginning Balance", "Ending Balance"} THEN Put(sm, key, row.Amount)
  ELSE Put(sm, key, abs(row.Amount))

\* one row of checking_summary goes into extracted_summary: the balances as
\* they are, withdrawals added up, the other categories as absolute values
chase_summary_put(sm, row) ==
  LET key == chase_summary_key(row.Description) IN
  IF key = "" THEN sm
  ELSE IF key \in {"Beginning Balance", "Ending Balance"} THEN Put(sm, key, row.Amount)
  ELSE IF key = "Withdrawals"
  THEN Put(sm, key, (IF key \in DOMAIN sm THEN sm[key] ELSE 0) + abs(row.Amount))
  ELSE Put(sm, key, abs(row.Amount))

\* "for row in checking_summary" after the page loop, from row i on
RECURSIVE chase_extracted_summary(_, _, _)
chase_extracted_summary(sm, rows, i) ==
  IF i > Len(rows) THEN sm
  ELSE chase_extracted_summary(chase_summary_put(sm, rows[i]), rows, i + 1)

ChaseLines ==
  { <<"DEPOSITS AND ADDITIONS">>,
    <<"ELECTRONIC WITHDRAWALS">>,
    <<"CHECKS PAID">>,
    <<"DAILY ENDING BALANCE">>,
    <<"CHECKING SUMMARY">>,
    <<"*end*", "DEPOSITS AND ADDITIONS">>,
    <<"Page", "1", "of", "2">>,
    <<"04/01", "Coffee", "4.50">>,
    <<"04/02/25", "Rent", "4.50">>,
    <<"/05", "Rent", "-5.00">>,
    <<"101", "^", "04/02", "$6.00">>,
    <<"101", "^", "04/02", "$6.00", "101", "^", "04/01", "4.50">>,
    <<"04/01", "4.50", "04/02", "$6.00">>,
    <<"12/31", "4.50">>,
    <<"05/01", "Gas", "4.50", "05/01", "25.00">>,
    <<"/05", "25.00">>,
    <<"Beginning", "Balance", "$6.00">>,
    <<"Fees", "25.00">>,
    <<"Withdrawals", "-5.00">>,
    <<"extra", "note">>,
    <<"Coffee">>,
    <<>> }


(***************************************************************************)
(* app.py: extract_chase_transactions                                      *)
(***************************************************************************)
app_section_keywords ==
  << [key |-> "DEPOSITS AND ADDITIONS", name |-> "Deposit"],
     [key |-> "ATM & DEBIT CARD WITHDRAWALS", name |-> "Withdrawal"],
     [key |-> "ELECTRONIC WITHDRAWALS", name |-> "Withdrawal"],
     [key |-> "FEES", name |-> "Fee"] >>

\* date_pattern.match(line): ^MM/DD, description, amount$
app_date_match(l) == Len(l) >= 3 /\ l[1] \in Date5 /\ l[Len(l)] \in ChaseAmounts

\* re.search(r'\d+\.\d{2}$', line)
app_ends_in_amount(l) == Len(l) >= 1 /\ l[Len(l)] \in ChaseAmounts

\* body of "for line in lines" in extract_chase_transactions
parse_app_line(l) ==
  LET h == FirstKey(app_section_keywords, l)
      same == UNCHANGED <<current_section, last_txn_index, transactions, balances,
                          checking_summary>>
  IN
  IF h # 0 THEN
    /\ current_section' = app_section_keywords[h].name
    /\ UNCHANGED <<last_txn_index, transactions, balances, checking_summary>>
  ELSE IF chase_page_skip(l) THEN same
  ELSE IF app_date_match(l) /\ current_section # NoSection THEN
    /\ transactions' = Append(transactions,
          Rec(split(l[1]), SubSeq(l, 2, Len(l) - 1), chase_parse_amount(Chars(l[Len(l)])),
              current_section, 0, ""))
    /\ UNCHANGED <<current_section, last_txn_index, balances, checking_summary>>
  ELSE IF transactions # <<>> /\ ~StartsWithDate(l)
          /\ ~((\E i \in 1..Len(l) : l[i] \in {"$", "$6.00"}) /\ In("Balance", l))
          /\ ~app_ends_in_amount(l) THEN
    /\ transactions' = [transactions EXCEPT ![Len(transactions)].Description =
                          @ \o (IF l = <<>> THEN <<"">> ELSE l)]
    /\ UNCHANGED <<current_section, last_txn_index, balances, checking_summary>>
  ELSE same

AppLines ==
  { <<"DEPOSITS AND ADDITIONS">>,
    <<"ELECTRONIC WITHDRAWALS">>,
    <<"Page", "1", "of", "2">>,
    <<"04/01", "Coffee", "Shop", "4.50">>,
    <<"04/02", "Rent", "-5.00">>,
    <<"04/01", "FEES", "4.50">>,
    <<"extra", "note">>,
    <<"fee", "4.50">>,
    <<"Beginning", "Balance", "$6.00">>,
    <<>> }

(***************************************************************************)
(* Bank_2.py: extract_transactions_dynamic                                 *)
(***************************************************************************)
\* the SECTION_KEYWORDS that line.upper() holds, token by token
bank2_keywords(t) ==
  CASE t = "DEPOSITS" -> {"DEPOSIT"}
    [] t = "WITHDRAWALS" -> {"WITHDRAWAL"}
    [] t = "fee" -> {"FEE"}
    [] OTHER -> {}

\* line.title(), token by token
bank2_title_word(t) ==
  CASE t = "DEPOSITS" -> "Deposits"
    [] t = "WITHDRAWALS" -> "Withdrawals"
    [] t = "late" -> "Late"
    [] t = "fee" -> "Fee"
    [] OTHER -> t

RECURSIVE bank2_title(_)
bank2_title(l) ==
  IF Len(l) = 1 THEN bank2_title_word(l[1])
  ELSE bank2_title_word(l[1]) \o " " \o bank2_title(Tail(l))

\* -?\$?[\d,]+\.\d{2} spanning the whole token
Bank2Amounts == {"4.50", "1,000.00", "500.00"}

\* the auto-detect test: a keyword, no leading "TOTAL", no leading date
\* (every line of the corpus is shorter than 80 characters)
bank2_is_header(l) ==
  /\ \E i \in 1..Len(l) : bank2_keywords(l[i]) # {}
  /\ l[1] # "Total"
  /\ l[1] \notin Date5

\* date_pattern.match(line): ^MM/DD, description, amount$
bank2_date_match(l) == Len(l) >= 3 /\ l[1] \in Date5 /\ l[Len(l)] \in Bank2Amounts

\* float(amount_str) after '$', ',' and ' ' are removed; 0.0 on ValueError
bank2_parse_amount(t) ==
  LET f == float(Remove(Remove(Remove(Chars(t), "$"), ","), " ")) IN
  IF f.ok THEN f.v ELSE 0

\* the words of the sign tests that current_section.lower() holds
bank2_section_words(section) ==
  CASE section = "Deposits" -> {"deposit"}
    [] section = "Withdrawals" -> {"withdrawal"}
    [] section = "Late Fee" -> {"fee"}
    [] OTHER -> {}

\* signing that keeps the amount as it is printed
bank2_signed_raw(section, amount) == amount

\* "Smart Signing": negative in a section that names money leaving,
\* positive in one that names money coming in, else as printed
bank2_signed(section, amount) ==
  IF bank2_section_words(section) \cap {"withdrawal", "debit", "fee", "payment", "charge"} # {}
  THEN 0 - abs(amount)
  ELSE IF bank2_section_words(section) \cap {"deposit", "credit", "addition"} # {}
  THEN abs(amount)
  ELSE amount

\* re.search(r'\d+\.\d{2}$', line)
bank2_ends_in_amount(l) == Len(l) >= 1 /\ l[Len(l)] \in Bank2Amounts

\* a continuation test that lets every line through
bank2_looks_like_text_any(l) == TRUE

\* "Append if it looks like text": the line does not end in an amount
bank2_looks_like_text(l) == ~bank2_ends_in_amount(l)

\* body of "for line in lines" in extract_transactions_dynamic; the record
\* keeps its section under "Section" (here Type); Raw_Line, a copy of the
\* line, is left out
parse_bank2_line(l) ==
  LET same == UNCHANGED <<current_section, last_txn_index, transactions, balances,
                          checking_summary>>
  IN
  IF l # <<>> /\ bank2_is_header(l) THEN
    /\ current_section' = bank2_title(l)
    /\ UNCHANGED <<last_txn_index, transactions, balances, checking_summary>>
  ELSE IF chase_page_skip(l) THEN same
  ELSE IF bank2_date_match(l) THEN
    /\ transactions' = Append(transactions,
          Rec(split(l[1]), SubSeq(l, 2, Len(l) - 1),
              bank2_signed(current_section, bank2_parse_amount(l[Len(l)])),
              current_section, 0, ""))
    /\ UNCHANGED <<current_section, last_txn_index, balances, checking_summary>>
  ELSE IF transactions # <<>> /\ ~StartsWithDate(l)
          /\ ~In("Balance", l) /\ ~(\E i \in 1..Len(l) : l[i] \in {"$", "$6.00"})
          /\ bank2_looks_like_text(l) THEN
    /\ transactions' = [transactions EXCEPT ![Len(transactions)].Description =
                          @ \o (IF l = <<>> THEN <<"">> ELSE l)]
    /\ UNCHANGED <<current_section, last_txn_index, balances, checking_summary>>
  ELSE same

Bank2Lines ==
  { <<"DEPOSITS">>,
    <<"WITHDRAWALS">>,
    <<"late", "fee">>,
    <<"Page", "1", "of", "2">>,
    <<"04/01", "Payroll", "1,000.00">>,
    <<"04/02", "Rent", "500.00">>,
    <<"Total", "DEPOSITS", "4.50">>,
    <<"Balance", "note">>,
    <<"extra", "note">>,
    <<>> }

(***************************************************************************)
(* The page loop and the line loop                                         *)
(***************************************************************************)
Lines(b) ==
  CASE b = "boa" -> BoaLines
    [] b = "citizens" -> CitizensLines
    [] b = "usbank" -> UsLines
    [] b = "chase" -> ChaseLines
    [] b = "app" -> AppLines
    [] b = "bank2" -> Bank2Lines

parse_line(l) ==
  CASE bank = "boa" -> /\ parse_boa_line(l)
                       /\ boa_summary_line(l)
                       /\ UNCHANGED <<checking_summary, in_summary>>
    [] bank = "citizens" -> /\ parse_citizens_line(l)
                            /\ UNCHANGED <<checking_summary, extracted_summary, in_summary>>
    [] bank = "usbank" -> /\ parse_us_line(l)
                          /\ us_summary_line(l)
                          /\ UNCHANGED checking_summary
    [] bank = "chase" -> parse_chase_line(l) /\ UNCHANGED <<extracted_summary, in_summary>>
    [] bank = "app" -> parse_app_line(l) /\ UNCHANGED <<extracted_summary, in_summary>>
    [] bank = "bank2" -> parse_bank2_line(l) /\ UNCHANGED <<extracted_summary, in_summary>>

\* the line is consumed by a section-header branch
IsHeader(l) ==
  CASE bank = "boa" -> FirstKey(boa_section_keywords, l) # 0
    [] bank = "citizens" -> l # <<>> /\ citizens_check_findall(l, 1) = <<>>
                              /\ FirstKey(citizens_section_keywords, l) # 0
    [] bank = "usbank" -> FirstKey(us_section_keywords, l) # 0
    [] bank = "chase" -> ~chase_noise(l) /\ FirstKey(chase_section_keywords, l) # 0
    [] bank = "app" -> FirstKey(app_section_keywords, l) # 0
    [] bank = "bank2" -> l # <<>> /\ bank2_is_header(l)

\* the line is consumed by a noise / ignore branch
IsNoise(l) ==
  ~IsHeader(l) /\
  CASE bank = "boa" -> boa_ignore(l)
    [] bank = "citizens" -> l # <<>> /\ citizens_ignore(l)
    [] bank = "usbank" -> us_ignore(l)
    [] bank = "chase" -> chase_noise(l)
                           \/ (chase_page_skip(l) /\ current_section # "Checking Summary")
    [] bank = "app" -> chase_page_skip(l)
    [] bank = "bank2" -> chase_page_skip(l)

\* nothing is given to wells_fargo.py
NoWells ==
  /\ wf_text = {}
  /\ wf_pdf = <<>>
  /\ wf_pc = "none"
  /\ wf_bank = ""
  /\ wf_calls = <<>>
  /\ wf_regex = <<>>
  /\ wf_spatial = <<>>
  /\ wf_returned = <<>>
  /\ wf_messages = <<>>

\* the parsers and the amount functions run without main_app
NoUpload ==
  /\ pdf_file = "none"
  /\ page_text = {}
  /\ bank_name = ""
  /\ invoked = <<>>
  /\ summary_data = <<>>
  /\ summary_diffs = <<>>
  /\ balance_summary_diffs = <<>>
  /\ verdict = "none"
  /\ messages = <<>>
  /\ export = <<>>
  /\ balance_df = <<>>
  /\ document = <<>>
  /\ line_idx = 0
  /\ run = 0
  /\ first = <<>>

Init ==
  /\ bank \in Banks
  /\ pc = "start"
  /\ page_num = 0
  /\ line = NoLine
  /\ current_section = IF bank \in {"chase", "app"} THEN NoSection
                       ELSE IF bank = "bank2" THEN "Uncategorized" ELSE "Unknown"
  /\ last_txn_index = None
  /\ transactions = <<>>
  /\ balances = <<>>
  /\ checking_summary = <<>>
  /\ extracted_summary = EmptyDict
  /\ in_summary = "no"
  /\ nlines = 0
  /\ last_header = current_section
  /\ sealed = 0
  /\ opened = 0
  /\ extraction_seq = 0
  /\ Extraction_Seq = <<>>
  /\ amount_str = <<>>
  /\ result = [fn |-> "none", v |-> 0]
  /\ NoUpload
  /\ NoWells

\* a page start that keeps the pointer of the previous page
new_page_index_kept == last_txn_index

\* last_txn_index = None at the top of every page with text
new_page_index == None

\* "for idx, page in enumerate(pdf.pages)": the next page is fetched; a page
\* without text is skipped, a page with text resets the per-page state and
\* has at least one line
TurnPage(has_text) ==
  /\ pc \in {"start", "in_page"}
  /\ page_num < MaxPages
  /\ page_num' = page_num + 1
  /\ IF has_text \/ bank = "app"
     THEN /\ nlines < MaxLines
          /\ pc' = "page_start"
          /\ last_txn_index' = new_page_index
          /\ current_section' = IF bank \in {"chase", "app"} THEN NoSection
                                ELSE IF bank = "bank2" THEN "Uncategorized"
                                ELSE current_section
          /\ opened' = 0
          /\ in_summary' = "no"
     ELSE /\ pc' = "start"
          /\ UNCHANGED <<last_txn_index, current_section, opened, in_summary>>
  /\ line' = NoLine
  /\ UNCHANGED <<bank, transactions, balances, checking_summary, extracted_summary,
                 extraction_seq, Extraction_Seq, last_header, nlines, sealed>>

NextPage ==
  /\ \E has_text \in BOOLEAN : TurnPage(has_text)
  /\ UNCHANGED <<amount_str, result, appVars, runVars, wfVars>>

\* stamps of a counter that is advanced once for a line, however many
\* records the line gives
extraction_stamps_line(seq, k) == [j \in 1..k |-> seq + 1]

\* "extraction_seq += 1" before each of the k records a US Bank line appends:
\* the values the records get as Extraction_Seq
extraction_stamps(seq, k) == [j \in 1..k |-> seq + j]

\* one iteration of "for line in lines"
ReadLine(l) ==
  /\ pc \in {"page_start", "in_page"}
  /\ nlines < MaxLines
  /\ line' = l
  /\ parse_line(l)
  /\ LET appended == IF bank = "usbank" THEN Len(transactions') - Len(transactions)
                     ELSE 0
     IN /\ extraction_seq' = extraction_seq + appended
        /\ Extraction_Seq' = Extraction_Seq \o extraction_stamps(extraction_seq, appended)
  /\ last_header' = IF IsHeader(l) THEN current_section' ELSE last_header
  /\ sealed' = IF IsHeader(l) \/ IsNoise(l) THEN Len(transactions) ELSE sealed
  /\ opened' = IF IsHeader(l) \/ IsNoise(l) THEN 0
               ELSE IF Len(transactions') = Len(transactions) + 1
                       /\ last_txn_index' = (IF bank \in {"chase", "app", "bank2"} THEN None
                                             ELSE Len(transactions'))
                    THEN Len(transactions')
               ELSE IF Len(transactions') > Len(transactions) THEN 0
               ELSE opened
  /\ pc' = "in_page"
  /\ nlines' = nlines + 1
  /\ UNCHANGED <<bank, page_num>>

ProcessLine ==
  /\ \E l \in Lines(bank) : ReadLine(l)
  /\ UNCHANGED <<amount_str, result, appVars, runVars, wfVars>>

\* the last part of the first date, without the test for two slashes
year_guess_last_part ==
  IF transactions # <<>>
  THEN transactions[1].Date[Len(transactions[1].Date)] ELSE "25"

\* the year a date without one gets after the loop
year_guess ==
  IF transactions # <<>> /\ Len(transactions[1].Date) = 3
  THEN transactions[1].Date[3] ELSE "25"

\* the year put in front of the date instead of behind it
add_year_front(d) == IF Len(d) = 2 THEN <<year_guess>> \o d ELSE d

\* d + "/" + year for a date without a year
add_year(d) == IF Len(d) = 2 THEN d \o <<year_guess>> ELSE d

\* the code after the page loop, up to the return
Return ==
  /\ pc \in {"start", "in_page"}
  /\ pc' = "done"
  /\ transactions' = IF bank = "chase"
                     THEN [i \in 1..Len(transactions) |->
                             [transactions[i] EXCEPT !.Date = add_year(@)]]
                     ELSE transactions
  /\ balances' = IF bank \in {"chase", "boa"}
                 THEN [i \in 1..Len(balances) |-> [balances[i] EXCEPT !.Date = add_year(@)]]
                 ELSE balances
  /\ extracted_summary' = IF bank = "chase"
                          THEN chase_extracted_summary(EmptyDict, checking_summary, 1)
                          ELSE extracted_summary
  /\ UNCHANGED <<bank, page_num, line, current_section, last_txn_index, checking_summary,
                 in_summary, extraction_seq, Extraction_Seq, last_header, nlines, sealed,
                 opened>>

Finish ==
  /\ Return
  /\ UNCHANGED <<amount_str, result, appVars, runVars, wfVars>>

Next == NextPage \/ ProcessLine \/ Finish

Spec == Init /\ [][Next]_vars

(***************************************************************************)
(* The amount parsers on their own: a token is drawn, then one of the two  *)
(* parse_amount functions is called on it.                                 *)
(***************************************************************************)
SeqsUpTo(S, n) == UNION {[1..k -> S] : k \in 0..n}

AmountBodies ==
  { <<"4", "5", ".", "0", "0">>,
    <<"1", ",", "2", "3", "4", ".", "5", "6">>,
    <<"0", ".", "0", "0">>,
    <<"1", "-", "2">>,
    <<"g">>,
    <<".">>,
    <<>> }

AmountTokens ==
  { pre \o body \o suf : pre \in SeqsUpTo({"(", "-", "$"}, MaxPre),
                         body \in AmountBodies,
                         suf \in SeqsUpTo({"+", "-", ")"}, MaxSuf) }

InitAmount ==
  /\ bank = "none"
  /\ pc = "amount"
  /\ page_num = 0
  /\ line = NoLine
  /\ current_section = NoSection
  /\ last_txn_index = None
  /\ transactions = <<>>
  /\ balances = <<>>
  /\ checking_summary = <<>>
  /\ extracted_summary = EmptyDict
  /\ in_summary = "no"
  /\ nlines = 0
  /\ last_header = current_section
  /\ sealed = 0
  /\ opened = 0
  /\ extraction_seq = 0
  /\ Extraction_Seq = <<>>
  /\ amount_str \in AmountTokens
  /\ result = [fn |-> "none", v |-> 0]
  /\ NoUpload
  /\ NoWells

CallBob ==
  /\ pc = "amount"
  /\ result.fn = "none"
  /\ result' = [fn |-> "bob", v |-> bob_parse_amount(amount_str)]
  /\ UNCHANGED <<parserVars, amount_str, appVars, runVars, wfVars>>

CallChase ==
  /\ pc = "amount"
  /\ result.fn = "none"
  /\ result' = [fn |-> "chase", v |-> chase_parse_amount(amount_str)]
  /\ UNCHANGED <<parserVars, amount_str, appVars, runVars, wfVars>>

NextAmount == CallBob \/ CallChase

SpecAmount == InitAmount /\ [][NextAmount]_vars

(***************************************************************************)
(* What a decorated amount token denotes, read off the token itself        *)
(***************************************************************************)
Count(s, ch) == Cardinality({i \in 1..Len(s) : s[i] = ch})

\* digits with optional commas and decimals
IsNumeral(b) ==
  /\ b # <<>>
  /\ b[1] \in Digits
  /\ \A i \in 1..Len(b) : b[i] \in Digits \cup {",", "."}
  /\ IsUnsignedLiteral(Remove(b, ","))

\* "(", "$", "-" in front, each at most once, "(" outermost
GoodPre(p) ==
  /\ \A i \in 1..Len(p) : p[i] \in {"(", "-", "$"}
  /\ Count(p, "(") <= 1 /\ Count(p, "-") <= 1 /\ Count(p, "$") <= 1
  /\ \A i \in 2..Len(p) : p[i] # "("

\* at most one trailing sign, then at most one ")"
GoodSuf(q) ==
  /\ \A i \in 1..Len(q) : q[i] \in {"+", "-", ")"}
  /\ Count(q, "+") + Count(q, "-") <= 1
  /\ Count(q, ")") <= 1
  /\ \A i \in 1..(Len(q) - 1) : q[i] # ")"

Enclosed(t) == startswith(t, "(") /\ endswith(t, ")")

\* a numeral decorated with $, a leading -, a trailing - or +, or parentheses
Decorated(t) ==
  \E i \in 0..Len(t) : \E j \in i..Len(t) :
    /\ GoodPre(SubSeq(t, 1, i))
    /\ IsNumeral(SubSeq(t, i + 1, j))
    /\ GoodSuf(SubSeq(t, j + 1, Len(t)))
    /\ (Count(t, "(") = 1) = (Count(t, ")") = 1)

IsNumChar(c) == c \in Digits \cup {"."}

Magnitude(t) == UnsignedCents(SelectSeq(t, IsNumChar))

Negated(t) == Enclosed(t) \/ Count(t, "-") > 0

Denoted(t) == IF Negated(t) THEN 0 - Magnitude(t) ELSE Magnitude(t)

(***************************************************************************)
(* Claims about the amount parsers                                         *)
(***************************************************************************)
\* C9 as stated: for every decorated numeral both parse_amount functions
\* return its magnitude, negated when the token has a leading or trailing
\* "-" or is enclosed in parentheses.
C9_AsStated ==
  (result.fn # "none" /\ Decorated(amount_str)) => result.v = Denoted(amount_str)

\* the decorations bob.py's parse_amount reads: no "$", no "+" inside parentheses
BobReads(t) == Count(t, "$") = 0 /\ ~(Enclosed(t) /\ Count(t, "+") > 0)

\* the decorations chase_parser.py's parse_amount reads: "$" and a leading "-"
ChaseReads(t) == Count(t, "(") = 0 /\ Count(t, ")") = 0 /\ Count(t, "+") = 0
                   /\ IsNumChar(t[Len(t)])

\* C9: a decorated numeral is returned as its magnitude, negated for a
\* leading or trailing "-" or enclosing parentheses, by bob.py's parse_amount
\* when the token has no "$" and no "+" inside parentheses, and by
\* chase_parser.py's parse_amount when the token is decorated only with "$"
\* and a leading "-"; each returns 0 for the other decorated numerals.
C9_AmountNormalization ==
  (result.fn # "none" /\ Decorated(amount_str)) =>
     LET reads == IF result.fn = "bob" THEN BobReads(amount_str)
                  ELSE ChaseReads(amount_str)
     IN result.v = IF reads THEN Denoted(amount_str) ELSE 0

C9_Witness ==
  /\ result.fn = "bob"
  /\ amount_str = <<"(", "1", ",", "2", "3", "4", ".", "5", "6", ")">>
  /\ result.v = 0 - 123456

\* the token is a decorated numeral or a bare float literal
Parsable(t) == Decorated(t) \/ float(t).ok

\* C10 as stated: parse_amount returns 0.0 for an absent, empty or
\* non-parsable token.
C10_FailSoft ==
  (result.fn # "none" /\ ~Parsable(amount_str)) => result.v = 0

(***************************************************************************)
(* Claims about the line loop of the statement parsers                     *)
(***************************************************************************)
\* the step processes one line; afterwards "line" is that line
LineStep == nlines' = nlines + 1

\* the step made the description of record i longer
Grew(i) ==
  /\ i \in 1..Len(transactions)
  /\ Len(transactions'[i].Description) > Len(transactions[i].Description)

Keywords ==
  CASE bank = "boa" -> boa_section_keywords
    [] bank = "citizens" -> citizens_section_keywords
    [] bank = "usbank" -> us_section_keywords
    [] bank = "chase" -> chase_section_keywords
    [] OTHER -> app_section_keywords

HasKeyword(l) == FirstKey(Keywords, l) # 0

\* the line became the current section and produced no record
ConsumedAsHeader(l) ==
  /\ current_section' = Keywords[FirstKey(Keywords, l)].name
  /\ transactions' = transactions
  /\ balances' = balances

BeforeHeader(l) ==
  \/ bank = "citizens" /\ citizens_check_findall(l, 1) # <<>>
  \/ bank = "chase" /\ chase_noise(l)

C2_HeaderClosesRecord ==
  [][\A i \in 1..Len(transactions) :
        (bank \in ParserBanks /\ Grew(i)) => i > sealed]_vars

\* C3: whenever a line is appended to a record's description in one of the
\* four bank parsers, the current section equals the record's Type.
C3_SameSection ==
  [][\A i \in 1..Len(transactions) :
        (bank \in ParserBanks /\ Grew(i)) => transactions[i].Type = current_section]_vars

C3_Witness ==
  /\ bank = "usbank"
  /\ current_section = "Other Deposits"
  /\ Len(transactions) = 1
  /\ transactions[1].Type = "Other Deposits"
  /\ transactions[1].Description = <<"Wire", "extra", "note">>

\* the record a continuation line would extend
OpenRecord ==
  IF bank = "chase"
  THEN IF transactions # <<>> /\ transactions[Len(transactions)].Page = page_num
          /\ transactions[Len(transactions)].Type = current_section
       THEN Len(transactions) ELSE None
  ELSE last_txn_index

\* C4: in the four bank parsers a line of page p is appended only to a record
\* of page p, and no record is open when a page starts.
C4_SamePage ==
  /\ [][\A i \in 1..Len(transactions) :
          (bank \in ParserBanks /\ Grew(i)) => transactions[i].Page = page_num]_vars
  /\ []((bank \in ParserBanks /\ pc = "page_start") => OpenRecord = None)

C4_Witness ==
  /\ bank = "boa"
  /\ page_num = 2
  /\ current_section = "Deposits"
  /\ line = <<"extra", "note">>
  /\ Len(transactions) = 1
  /\ transactions[1].Page = 1
  /\ transactions[1].Description = <<"Coffee", "Shop">>

\* C5 as stated: once a record is in the list only its Description changes.
C5_AsStated ==
  [][\A i \in 1..Len(transactions) :
        bank \in ParserBanks =>
          /\ transactions'[i].Date = transactions[i].Date
          /\ transactions'[i].Amount = transactions[i].Amount
          /\ transactions'[i].Type = transactions[i].Type
          /\ transactions'[i].Page = transactions[i].Page
          /\ transactions'[i].Ref = transactions[i].Ref]_vars

\* C5: once a record is in the list its Amount, Type and Page never change;
\* its Date is unchanged by every line and only gets the year appended by the
\* Chase parser's final pass when it has none; besides Description, the
\* reference of a US Bank card-deposit record may be filled in from a later
\* "Serial No." line.
C5_RecordImmutability ==
  [][\A i \in 1..Len(transactions) :
        bank \in ParserBanks =>
          /\ transactions'[i].Amount = transactions[i].Amount
          /\ transactions'[i].Type = transactions[i].Type
          /\ transactions'[i].Page = transactions[i].Page
          /\ \/ transactions'[i].Date = transactions[i].Date
             \/ /\ bank = "chase" /\ pc' = "done"
                /\ Len(transactions[i].Date) = 2
                /\ Len(transactions'[i].Date) = 3
                /\ SubSeq(transactions'[i].Date, 1, 2) = transactions[i].Date
          /\ \/ transactions'[i].Ref = transactions[i].Ref
             \/ /\ bank = "usbank" /\ LineStep
                /\ transactions[i].Type = "Card Deposits"
                /\ i = Len(transactions)]_vars

C5_Witness ==
  /\ bank = "chase"
  /\ pc = "done"
  /\ Len(transactions) = 1
  /\ transactions[1].Date = <<"04", "01", "25">>
  /\ transactions[1].Description = <<"Coffee", "extra", "note">>
  /\ transactions[1].Amount = 450

ReassemblyBanks == {"boa", "chase", "app"}

\* the line matches the primary transaction pattern of the current section
Primary(l) ==
  CASE bank = "boa" -> boa_date_start(l)
    [] bank = "chase" -> IF current_section = "Checks Paid"
                         THEN chase_check_search(l).i # 0
                         ELSE chase_date_search(l).i # 0
    [] OTHER -> app_date_match(l)

\* the line opens one more record and leaves the earlier ones alone
NewRecord ==
  /\ Len(transactions') = Len(transactions) + 1
  /\ \A i \in 1..Len(transactions) : transactions'[i] = transactions[i]

Suppressed(l) ==
  LET balance == (\E i \in 1..Len(l) : l[i] \in {"$", "$6.00"}) /\ In("Balance", l)
      desc == transactions[Len(transactions)].Description
  IN CASE bank = "boa" -> FALSE
       [] bank = "chase" ->
            \/ StartsWithDate(l)
            \/ current_section = "Checks Paid" /\ StartsWithDigit(l)
            \/ balance \/ chase_junk(l) \/ chase_fee_noise(l)
            \/ l = desc
            \/ In("Monthly Service Fee", desc) /\ In("Monthly Service Fee", l)
            \/ chase_bullets(l) \/ chase_tracking_id(l)
       [] OTHER -> StartsWithDate(l) \/ balance \/ app_ends_in_amount(l)

DepositTypes ==
  {"Deposits", "Deposit", "Customer Deposits", "Other Deposits", "Card Deposits"}

DebitTypes ==
  {"Withdrawals", "Checks", "Service Fees", "Debits", "Checks Paid",
   "ATM & Debit Withdrawal", "Electronic Withdrawal", "Other Withdrawal", "Fee",
   "Card Withdrawals", "Other Withdrawals"}

SignBySection(r) ==
  /\ r.Type \in DepositTypes => r.Amount >= 0
  /\ r.Type \in DebitTypes => r.Amount <= 0

\* C8 as stated: in the four bank parsers every record of a deposit section
\* has Amount >= 0 and every record of a withdrawal, debit, check or fee
\* section has Amount <= 0.
C8_AsStated ==
  bank \in ParserBanks =>
    \A i \in 1..Len(transactions) : SignBySection(transactions[i])

\* C8: the Citizens and US Bank parsers force the sign by section (deposits
\* >= 0, debits and checks <= 0); the Chase parser makes every Amount
\* non-negative; the Bank of America parser keeps the sign printed in the
\* amount token.
C8_SectionSign ==
  /\ [](bank \in {"citizens", "usbank"} =>
          \A i \in 1..Len(transactions) : SignBySection(transactions[i]))
  /\ [](bank = "chase" => \A i \in 1..Len(transactions) : transactions[i].Amount >= 0)
  /\ [][(bank = "boa" /\ LineStep /\ Len(transactions') = Len(transactions) + 1
           /\ current_section \in {"Deposits", "Withdrawals", "Service Fees"})
          => LET tok == Chars(line'[Len(line')])
                 amt == transactions'[Len(transactions')].Amount
             IN (amt < 0) = (tok[1] = "-")]_vars

C8_Witness ==
  /\ bank = "citizens"
  /\ Len(transactions) = 2
  /\ transactions[1].Type = "Deposits" /\ transactions[1].Amount = 2500
  /\ transactions[2].Type = "Debits" /\ transactions[2].Amount = 0 - 450

(***************************************************************************)
(* Claims about date repair and balance records                            *)
(***************************************************************************)
\* the date token of the Chase transaction or check line l
ChaseTxnDate(l) ==
  chase_date(IF current_section = "Checks Paid" THEN l[chase_check_search(l).j]
             ELSE l[chase_date_search(l).i])

\* the step appended k balance entries; the date tokens they come from
NewBalances == Len(balances') - Len(balances)

\* C11 as stated: in parse_chase_statement a date token with a non-empty
\* month is stored unchanged in the record created from it, in the
\* transaction sections and in the daily-balance section alike.
C11_FullDateUnchanged ==
  [][(bank = "chase" /\ LineStep) =>
       /\ \A k \in 1..NewBalances :
            LET d == chase_balance_findall(line', 1)[k].date
            IN d[1] # "" => balances'[Len(balances) + k].Date = d
       /\ Len(transactions') = Len(transactions) + 1 =>
            LET d == ChaseTxnDate(line')
            IN d[1] # "" => transactions'[Len(transactions')].Date = d]_vars

\* month of the last record created in the current section, "04" if none
StreamMonth ==
  LET S == {i \in 1..Len(transactions) : transactions[i].Type = current_section}
  IN IF S = {} THEN "04"
     ELSE transactions[CHOOSE i \in S : \A j \in S : j <= i].Date[1]

\* month of the last record created so far, "04" if none
LastMonth ==
  IF transactions = <<>> THEN "04" ELSE transactions[Len(transactions)].Date[1]

\* C12 as stated: a date fragment on a Chase transaction or check line gets
\* the month of the last date accepted in the same section, "04" if none.
C12_AsStated ==
  [][(bank = "chase" /\ LineStep /\ Len(transactions') = Len(transactions) + 1) =>
       LET d == ChaseTxnDate(line')
       IN d[1] = "" => transactions'[Len(transactions')].Date = <<StreamMonth, d[2]>>]_vars

\* C12: a date fragment on a Chase transaction or check line gets the month
\* of the last transaction record created so far, whatever its section or
\* page, and "04" when there is no record yet.
C12_FragmentRepair ==
  [][(bank = "chase" /\ LineStep /\ Len(transactions') = Len(transactions) + 1) =>
       LET d == ChaseTxnDate(line')
       IN d[1] = "" => transactions'[Len(transactions')].Date = <<LastMonth, d[2]>>]_vars

C12_Witness ==
  /\ bank = "chase"
  /\ line = <<"/05", "Rent", "-5.00">>
  /\ Len(transactions) = 2
  /\ transactions[1].Type = "Deposit" /\ transactions[1].Date = <<"05", "01">>
  /\ transactions[2].Type = "Electronic Withdrawal"
  /\ transactions[2].Date = <<"05", "05">>

\* the month after m, December wrapping to January
NextMonth(m) == IF int(m) + 1 > 12 THEN "01" ELSE TwoDigit[int(m) + 1]

\* C13: in the daily-balance section a fragment "/DD" after a balance entry
\* MM/dd becomes month MM+1 (12 wrapping to 01) when DD < dd and month MM
\* otherwise; without a previous entry it gets the fallback month "04".
C13_BalanceRollover ==
  [][(bank = "chase" /\ LineStep) =>
       \A k \in 1..NewBalances :
         LET d == chase_balance_findall(line', 1)[k].date
             n == Len(balances) + k
         IN d[1] = "" =>
              balances'[n].Date =
                IF n = 1 THEN <<"04", d[2]>>
                ELSE LET p == balances'[n - 1].Date
                     IN IF int(d[2]) < int(p[2]) THEN <<NextMonth(p[1]), d[2]>>
                        ELSE <<p[1], d[2]>>]_vars

C13_Witness ==
  /\ bank = "chase"
  /\ current_section = "Daily Ending Balance"
  /\ line = <<"/05", "25.00">>
  /\ Len(balances) = 2
  /\ balances[1].Date = <<"12", "31">>
  /\ balances[2].Date = <<"01", "05">>

\* C14 as stated: in the Chase balance list the (month, day) of an entry is
\* never earlier than that of the entry before it, December to January apart.
C14_BalancesMonotone ==
  bank = "chase" =>
    \A i \in 1..(Len(balances) - 1) :
      LET a == balances[i].Date
          b == balances[i + 1].Date
      IN \/ int(a[1]) < int(b[1])
         \/ a[1] = b[1] /\ int(a[2]) <= int(b[2])
         \/ a[1] = "12" /\ b[1] = "01"

BalanceSections ==
  {"Daily Ledger", "Daily Balance", "Balance Summary", "Daily Ending Balance"}

\* C15: a balance record is created only by a line read while the
\* daily-balance section is current, and a line read in that section creates
\* no transaction record and modifies no description.
C15_BalancesConfined ==
  [][(bank \in ParserBanks /\ LineStep) =>
       /\ Len(balances') > Len(balances) =>
            current_section \in BalanceSections /\ current_section' = current_section
       /\ current_section \in BalanceSections => transactions' = transactions]_vars

C15_Witness ==
  /\ bank = "chase"
  /\ current_section = "Daily Ending Balance"
  /\ line = <<"04/01", "4.50", "04/02", "$6.00">>
  /\ Len(transactions) = 1
  /\ transactions[1].Description = <<"Coffee">>
  /\ Len(balances) = 2


(***************************************************************************)
(* Claims about the extracted summary                                      *)
(***************************************************************************)
\* the rows of checking_summary that fall into a category, in order
RowsOf(key) ==
  SelectSeq(checking_summary, LAMBDA row : chase_summary_key(row.Description) = key)

\* what one row contributes to its category
RowValue(key, row) ==
  IF key \in {"Beginning Balance", "Ending Balance"} THEN row.Amount ELSE abs(row.Amount)

RECURSIVE SumRows(_, _, _)
SumRows(key, rows, i) ==
  IF i > Len(rows) THEN 0 ELSE RowValue(key, rows[i]) + SumRows(key, rows, i + 1)

\* a category that has a value keeps it
SummaryKept ==
  \A key \in DOMAIN extracted_summary :
    key \in DOMAIN extracted_summary' /\ extracted_summary'[key] = extracted_summary[key]

\* C16 as the spec states it: a category that has a value keeps it on every
\* step, and the value the Chase parser returns for a category is the value
\* of the first checking-summary row of that category.
C16_AsStated ==
  [][/\ SummaryKept
     /\ (bank = "chase" /\ pc' = "done") =>
          \A key \in DOMAIN extracted_summary' :
            extracted_summary'[key] = RowValue(key, RowsOf(key)[1])]_vars

\* C16 (amended): the summary holds one value per category.  While the pages
\* are read (Bank of America, US Bank) the first match wins: a category that
\* has a value keeps it whatever the later lines match.  The Chase summary is
\* built after the page loop from the checking-summary rows: a category takes
\* the value of its last row, and "Withdrawals" the sum of its rows.
C16_FirstMatchWins ==
  [][/\ SummaryKept
     /\ (bank = "chase" /\ pc' = "done") =>
          /\ DOMAIN extracted_summary' =
               {chase_summary_key(checking_summary[i].Description) :
                  i \in 1..Len(checking_summary)} \ {""}
          /\ \A key \in DOMAIN extracted_summary' :
               extracted_summary'[key] =
                 IF key = "Withdrawals" THEN SumRows(key, RowsOf(key), 1)
                 ELSE RowValue(key, RowsOf(key)[Len(RowsOf(key))])]_vars

\* a US Bank summary line was read whose value for a category differs from
\* the value the category already had, and the category kept its value
C16_Witness ==
  /\ bank = "usbank"
  /\ in_summary = "yes"
  /\ \E key \in DOMAIN extracted_summary :
       LET m == us_summary_scan(EmptyDict, line, 1)
       IN key \in DOMAIN m /\ m[key] # extracted_summary[key]


\* C17 as the spec states it: a line of a page after the first never adds or
\* changes a summary entry, nor a checking-summary row the entries are built
\* from.
C17_AsStated ==
  [][(LineStep /\ page_num > 1) =>
       /\ extracted_summary' = extracted_summary
       /\ checking_summary' = checking_summary]_vars

\* C17 (amended): the Bank of America summary comes from the first page of
\* the document only: a line of a later page never adds or changes an entry.
\* US Bank reads the "Account Summary" block of every page: a line of a
\* later page changes the summary only inside such a block, and only by
\* adding a category that has no value yet.
C17_FirstPageOnly ==
  [][(LineStep /\ page_num > 1) =>
       /\ bank = "boa" => extracted_summary' = extracted_summary
       /\ bank = "usbank" =>
            /\ SummaryKept
            /\ extracted_summary' # extracted_summary => in_summary' = "yes"]_vars

\* a line of the second Bank of America page matched a summary pattern with
\* a value the summary does not hold
C17_Witness ==
  /\ bank = "boa"
  /\ page_num = 2
  /\ line # NoLine
  /\ \E key \in DOMAIN boa_summary_scan(EmptyDict, line, 1) :
       key \in DOMAIN extracted_summary =>
         extracted_summary[key] # boa_summary_scan(EmptyDict, line, 1)[key]


(***************************************************************************)
(* Claims about sections, packed lines and noise                           *)
(***************************************************************************)
\* C18: in the four bank parsers the current section changes only on a step
\* that processes a line holding a section-header keyword; the start of a
\* page and every other line leave it as it is.
C18_SectionStable ==
  [][(bank \in ParserBanks /\ current_section' # current_section)
       => (LineStep /\ HasKeyword(line'))]_vars


PackedBanks == {"boa", "citizens", "chase"}

CheckSections == {"Checks", "Checks Paid"}

\* the check groups of a Chase line from left to right: number, description,
\* date and amount, the next group sought behind the amount of the last one
RECURSIVE chase_check_groups(_)
chase_check_groups(l) ==
  LET m == chase_check_search(l) IN
  IF m.i = 0 THEN <<>>
  ELSE <<[amt |-> l[m.j + 1]]>> \o chase_check_groups(SubSeq(l, m.j + 2, Len(l)))

\* the packed record groups a line carries for the section it is read in
PackedGroups(l) ==
  CASE bank = "boa" /\ current_section = "Checks" -> boa_check_findall(l, 1)
    [] bank = "boa" /\ current_section = "Daily Ledger" -> boa_ledger_findall(l, 1)
    [] bank = "citizens" /\ current_section = "Checks" -> citizens_check_findall(l, 1)
    [] bank = "citizens" /\ current_section = "Daily Balance" -> citizens_balance_findall(l, 1)
    [] bank = "chase" /\ current_section = "Checks Paid" -> chase_check_groups(l)
    [] bank = "chase" /\ current_section = "Daily Ending Balance" -> chase_balance_findall(l, 1)
    [] OTHER -> <<>>

\* the magnitude of the amount of a group, as the bank's parser reads it
GroupAmount(g) ==
  CASE bank = "boa" -> abs(boa_float(g.amt))
    [] bank = "citizens" -> abs(citizens_parse_amount(Chars(g.amt)))
    [] OTHER -> abs(chase_parse_amount(Chars(g.amt)))

\* C19: in a checks section or a daily-balance section a line that is
\* neither header nor noise and carries n >= 1 packed groups adds exactly n
\* records, the k-th record holding the amount of the k-th group, and leaves
\* no record open for continuation.
C19_PackedLines ==
  [][(LineStep /\ bank \in PackedBanks /\ ~IsHeader(line') /\ ~IsNoise(line')
        /\ PackedGroups(line') # <<>>) =>
       LET gs == PackedGroups(line') IN
       /\ last_txn_index' = None
       /\ opened' = 0
       /\ IF current_section \in CheckSections
          THEN /\ balances' = balances
               /\ Len(transactions') = Len(transactions) + Len(gs)
               /\ \A k \in 1..Len(gs) :
                    abs(transactions'[Len(transactions) + k].Amount) = GroupAmount(gs[k])
          ELSE /\ transactions' = transactions
               /\ Len(balances') = Len(balances) + Len(gs)
               /\ \A k \in 1..Len(gs) :
                    abs(balances'[Len(balances) + k].Balance) = GroupAmount(gs[k])]_vars


\* the line matches a noise / ignore marker of the parser that reads it
NoiseMarker(l) ==
  CASE bank = "boa" -> boa_ignore(l)
    [] bank = "citizens" -> citizens_ignore(l)
    [] bank = "usbank" -> us_ignore(l)
    [] bank = "chase" -> chase_noise(l) \/ chase_page_skip(l)
    [] OTHER -> chase_page_skip(l)

\* the line matches an extraction pattern of the section it is read in
BoaPattern(l) ==
  \/ current_section = "Checks" /\ boa_check_findall(l, 1) # <<>>
  \/ current_section = "Daily Ledger" /\ boa_ledger_findall(l, 1) # <<>>
  \/ current_section \in {"Deposits", "Withdrawals", "Service Fees"} /\ boa_date_start(l)

DropBanks == {"boa", "chase"}

\* the line matches a pattern the loop body applies to it in the current
\* section: a transaction, check, balance or summary pattern
Extracts(l) ==
  CASE bank = "boa" ->
         \/ BoaPattern(l)
         \/ boa_summary_page(page_num - 1) /\ boa_summary_scan(EmptyDict, l, 1) # EmptyDict
    [] bank = "chase" ->
         \/ current_section = "Checking Summary" /\ chase_summary_match(l)
         \/ current_section = "Daily Ending Balance" /\ chase_balance_findall(l, 1) # <<>>
         \/ current_section = "Checks Paid" /\ chase_check_search(l).i # 0
         \/ current_section \notin chase_no_date_sections \cup {NoSection}
              /\ chase_date_search(l).i # 0
    [] OTHER -> FALSE

\* C21: in the Bank of America and Chase parsers a line that is no header,
\* matches no noise rule and no extraction pattern of its section, and is
\* read while no record is open, changes neither the transactions, the
\* balances, the summary, the current section nor the open-record pointer.
C21_NoMatchDropped ==
  [][(LineStep /\ bank \in DropBanks /\ ~IsHeader(line') /\ ~IsNoise(line')
        /\ ~Extracts(line') /\ OpenRecord = None) =>
       UNCHANGED <<transactions, balances, checking_summary, extracted_summary,
                   current_section, last_txn_index>>]_vars

\* a Chase line with text that matches nothing was read in a section other
\* than that of the last record, and the record was left as it was
C21_Witness ==
  /\ bank = "chase"
  /\ line = <<"extra", "note">>
  /\ transactions # <<>>
  /\ transactions[Len(transactions)].Page = page_num
  /\ current_section \notin {transactions[Len(transactions)].Type, NoSection,
                             "Daily Ending Balance", "Checking Summary"}
  /\ ~In("extra", transactions[Len(transactions)].Description)


\* the programs that sign an amount by the section of its line
SignBanks == {"citizens", "bank2"}

\* the line is a transaction line of a deposits or withdrawals section
SignedLine(l) ==
  IF bank = "bank2" THEN bank2_date_match(l) ELSE citizens_date_amount_desc(l)

\* the amount printed on a transaction line, as the program parses it
PrintedAmount(l) ==
  IF bank = "bank2" THEN bank2_parse_amount(l[Len(l)])
  ELSE citizens_parse_amount(Chars(l[2]))

\* C22: the Type of every record a line creates is the section label set by
\* the last header line read before it; and after a deposits header, one
\* deposit line and a withdrawals header, a withdrawal line makes the list
\* two records long: the deposit, positive, and the withdrawal, typed with
\* the withdrawals label and negative, their sum the difference of the two
\* printed amounts.
C22_TypeFollowsHeader ==
  [][LineStep =>
       /\ \A i \in (Len(transactions) + 1)..Len(transactions') :
            transactions'[i].Type = last_header
       /\ (/\ bank \in SignBanks
           /\ nlines = 3
           /\ Len(transactions) = 1
           /\ transactions[1].Type = "Deposits"
           /\ last_header \in {"Withdrawals", "Debits"}
           /\ ~IsHeader(line') /\ ~IsNoise(line')
           /\ SignedLine(line')) =>
            /\ Len(transactions') = 2
            /\ transactions'[1] = transactions[1]
            /\ transactions'[1].Amount >= 0
            /\ transactions'[2].Type = last_header
            /\ transactions'[2].Amount = 0 - abs(PrintedAmount(line'))
            /\ transactions'[1].Amount + transactions'[2].Amount =
                 abs(transactions[1].Amount) - abs(PrintedAmount(line'))]_vars

(***************************************************************************)
(* main_app.py: the upload is identified, routed to one parser, and the    *)
(* parser's result is reconciled and shown.                                *)
(***************************************************************************)

\* the phrases identify_bank looks for in the lower-cased text
Phrases ==
  {"chase", "jpmorgan", "chase bank", "chase.com", "u.s. bank", "us bank",
   "bank of america", "bofa", "citizens bank", "first citizens bank",
   "citizensbank.com"}

\* a text that holds a phrase holds every phrase written inside it
Inside(p) ==
  CASE p = "chase bank" -> {"chase"}
    [] p = "chase.com" -> {"chase"}
    [] p = "first citizens bank" -> {"citizens bank"}
    [] OTHER -> {}

\* the texts of the first three pages, by the phrases they hold; {} is a
\* text that holds none of them
PageTexts ==
  { {},
    {"chase"},
    {"chase", "jpmorgan"},
    {"jpmorgan", "u.s. bank"},
    {"chase", "chase bank", "bank of america"},
    {"chase", "chase.com", "us bank"},
    {"chase", "us bank"},
    {"us bank", "bank of america"},
    {"u.s. bank", "citizensbank.com"},
    {"bank of america", "citizens bank"},
    {"bofa"},
    {"citizens bank"},
    {"citizens bank", "first citizens bank"},
    {"citizens bank", "first citizens bank", "citizensbank.com"},
    {"chase", "citizensbank.com"} }

\* the upload: a file pdfplumber cannot open, a file without pages, a file
\* whose pages give no text (a scanned image), a file with text
PdfFiles == {"unreadable", "no_pages", "no_text", "pages"}

\* identify_bank with the US Bank test in front of the Chase test
identify_bank_us_first(file, text) ==
  IF file = "unreadable" THEN "Unknown"
  ELSE IF file = "no_pages" THEN "Unknown"
  ELSE IF "u.s. bank" \in text \/ "us bank" \in text THEN "US Bank"
  ELSE IF "chase" \in text /\ ("jpmorgan" \in text \/ "chase bank" \in text) THEN "Chase"
  ELSE IF "chase.com" \in text THEN "Chase"
  ELSE IF "bank of america" \in text \/ "bofa" \in text THEN "Bank of America"
  ELSE IF ("citizens bank" \in text /\ "first citizens bank" \notin text)
          \/ "citizensbank.com" \in text THEN "Citizens Bank"
  ELSE "Unknown"

\* identify_bank: an exception while the file is opened or read gives
\* "Unknown", a file without pages gives "Unknown", then the banks are tested
\* in the order Chase, US Bank, Bank of America, Citizens Bank
identify_bank(file, text) ==
  IF file = "unreadable" THEN "Unknown"
  ELSE IF file = "no_pages" THEN "Unknown"
  ELSE IF "chase" \in text /\ ("jpmorgan" \in text \/ "chase bank" \in text) THEN "Chase"
  ELSE IF "chase.com" \in text THEN "Chase"
  ELSE IF "u.s. bank" \in text \/ "us bank" \in text THEN "US Bank"
  ELSE IF "bank of america" \in text \/ "bofa" \in text THEN "Bank of America"
  ELSE IF ("citizens bank" \in text /\ "first citizens bank" \notin text)
          \/ "citizensbank.com" \in text THEN "Citizens Bank"
  ELSE "Unknown"

\* the parser process_pdf calls for a bank name, "" for none
ParserOf(name) ==
  CASE name = "US Bank" -> "usbank"
    [] name = "Citizens Bank" -> "citizens"
    [] name = "Bank of America" -> "boa"
    [] name = "Chase" -> "chase"
    [] OTHER -> ""


\* what the parsers hand back to main_app: the rows of the transactions
\* table, the summary dict and the rows of the balance table.  The amounts
\* carry the sign each parser gives them: US Bank negates withdrawals and
\* checks, Citizens negates debits and checks, Bank of America keeps the
\* printed sign, Chase takes the absolute value.
MaxTxns == 3

MaxBal == 1

DepositType(b) ==
  CASE b = "usbank" -> "Customer Deposits"
    [] b = "citizens" -> "Deposits"
    [] b = "boa" -> "Deposits"
    [] b = "chase" -> "Deposit"

OutflowType(b) ==
  CASE b = "usbank" -> "Card Withdrawals"
    [] b = "citizens" -> "Debits"
    [] b = "boa" -> "Withdrawals"
    [] b = "chase" -> "Electronic Withdrawal"

CheckType(b) ==
  CASE b = "usbank" -> "Checks Paid"
    [] b = "citizens" -> "Checks"
    [] b = "boa" -> "Checks"
    [] b = "chase" -> "Checks Paid"

OutflowSign(b) == IF b = "chase" THEN 1 ELSE 0 - 1

ParsedTxns(b) ==
  { Rec(<<"04", "01", "25">>, <<"Payroll">>, 20000, DepositType(b), 1, ""),
    Rec(<<"04", "02", "25">>, <<"Transfer">>, 15000, DepositType(b), 1, ""),
    Rec(<<"04", "02", "25">>, <<"Card", "purchase">>, OutflowSign(b) * 15000,
        OutflowType(b), 1, ""),
    Rec(<<"04", "03", "25">>, <<"Check", "#101">>, OutflowSign(b) * 20000,
        CheckType(b), 2, "") }

BeginningKey(b) == IF b = "citizens" THEN "Previous Balance" ELSE "Beginning Balance"

EndingKey(b) == IF b = "citizens" THEN "Current Balance" ELSE "Ending Balance"

DepositKey(b) ==
  CASE b = "usbank" -> "Customer Deposits"
    [] b = "citizens" -> "Deposits/Credits"
    [] b = "boa" -> "Deposits/Credits"
    [] b = "chase" -> "Deposits"

OutflowKey(b) ==
  CASE b = "usbank" -> "Card Withdrawals"
    [] b = "citizens" -> "Debits"
    [] b = "boa" -> "Withdrawals/Debits"
    [] b = "chase" -> "Withdrawals"

\* the value the parser stores for a printed outflow total of 150.00
OutflowStored(b) == IF b = "boa" THEN 0 - 15000 ELSE 15000

ParsedSummaries(b) ==
  { EmptyDict,
    Put(EmptyDict, DepositKey(b), 50000),
    Put(Put(Put(EmptyDict, BeginningKey(b), 100000), DepositKey(b), 50000),
        EndingKey(b), 150000),
    Put(Put(Put(Put(EmptyDict, BeginningKey(b), 100000), DepositKey(b), 35000),
            OutflowKey(b), OutflowStored(b)), EndingKey(b), 120000) }

ParsedBalanceRows ==
  { Bal(<<"04", "02", "25">>, 150000, 1),
    Bal(<<"04", "01", "25">>, 120000, 1),
    Bal(<<"02", "30", "25">>, 150000, 1) }

ParsedTables(S, n) == UNION {[1..k -> S] : k \in 0..n}


\* pd.to_datetime(date, format='%m/%d/%y', errors='coerce'): a number that
\* orders the dates, NaT for a date the calendar does not have
NaT == 0

DaysIn(m, y) ==
  IF m = 2 THEN (IF y % 4 = 0 THEN 29 ELSE 28)
  ELSE IF m \in {4, 6, 9, 11} THEN 30 ELSE 31

to_datetime(d) ==
  IF Len(d) = 3 /\ int(d[1]) <= 12 /\ int(d[2]) <= DaysIn(int(d[1]), int(d[3]))
  THEN int(d[3]) * 10000 + int(d[1]) * 100 + int(d[2])
  ELSE NaT

\* sort_values('DateTime', ascending=True): NaT rows last, equal keys keep
\* their order
SortKey(r) == IF to_datetime(r.Date) = NaT THEN 1000000 ELSE to_datetime(r.Date)

RECURSIVE sort_values(_)
sort_values(rows) ==
  IF rows = <<>> THEN <<>>
  ELSE LET x == rows[Len(rows)]
           rest == sort_values(SubSeq(rows, 1, Len(rows) - 1))
           NotAfter(r) == SortKey(r) <= SortKey(x)
           After(r) == SortKey(r) > SortKey(x)
       IN SelectSeq(rest, NotAfter) \o <<x>> \o SelectSeq(rest, After)

\* Series.sum()
RECURSIVE sum(_)
sum(xs) == IF xs = <<>> THEN 0 ELSE Head(xs) + sum(Tail(xs))

\* df[df['Type'].isin(types)]['Amount'].sum()
type_sum(df, types) ==
  LET OfType(r) == r.Type \in types
      rows == SelectSeq(df, OfType)
  IN sum([i \in 1..Len(rows) |-> rows[i].Amount])

\* extracted_summary.get(key, 0.0)
get(d, key) == IF key \in DOMAIN d THEN d[key] ELSE 0

\* df[~df['Type'].isin(['Unknown'])]
drop_unknown(df) ==
  LET Known(r) == r.Type # "Unknown" IN SelectSeq(df, Known)

ChaseOutflows ==
  {"ATM & Debit Withdrawal", "Electronic Withdrawal", "Other Withdrawal",
   "Checks Paid", "Fee"}

BoaOutflows == {"Withdrawals", "Checks", "Service Fees"}

\* a column that copies Amount for every bank
standardize_sign_copy(name, row) == row.Amount

\* standardize_sign
standardize_sign(name, row) ==
  IF name = "Chase"
  THEN (IF row.Type \in ChaseOutflows THEN 0 - abs(row.Amount) ELSE abs(row.Amount))
  ELSE IF name = "Bank of America"
  THEN (IF row.Type \in BoaOutflows THEN 0 - abs(row.Amount) ELSE abs(row.Amount))
  ELSE row.Amount

Row(category, extracted, computed, diff) ==
  [Category |-> category, Extracted |-> extracted, Computed |-> computed,
   Difference |-> diff]

\* the difference taken the other way round
difference_reversed(extracted, computed) == computed - extracted

\* "Difference": extracted - computed
difference(extracted, computed) == extracted - computed

\* a category row: Extracted, Computed and their difference
CategoryRow(category, extracted, computed) ==
  Row(category, extracted, computed, difference(extracted, computed))

\* beg_bal
beg_bal(name, es) ==
  IF name = "Citizens Bank" THEN get(es, "Previous Balance")
  ELSE get(es, "Beginning Balance")

\* summary_data of the US Bank branch
us_summary_data(df, es) ==
  LET computed_customer_deposits == type_sum(df, {"Customer Deposits"})
      computed_other_deposits == type_sum(df, {"Other Deposits"})
      computed_card_deposits == type_sum(df, {"Card Deposits"})
      computed_card_withdrawals == abs(type_sum(df, {"Card Withdrawals"}))
      computed_other_withdrawals == abs(type_sum(df, {"Other Withdrawals"}))
      computed_checks == abs(type_sum(df, {"Checks Paid"}))
      computed_ending ==
        get(es, "Beginning Balance") + computed_customer_deposits
          + computed_other_deposits + computed_card_deposits
          - computed_card_withdrawals - computed_other_withdrawals - computed_checks
  IN << Row("Beginning Balance", get(es, "Beginning Balance"),
            get(es, "Beginning Balance"), 0),
        CategoryRow("Customer Deposits", get(es, "Customer Deposits"),
                    computed_customer_deposits),
        CategoryRow("Other Deposits", get(es, "Other Deposits"), computed_other_deposits),
        CategoryRow("Card Deposits", get(es, "Card Deposits"), computed_card_deposits),
        CategoryRow("Card Withdrawals", abs(get(es, "Card Withdrawals")),
                    computed_card_withdrawals),
        CategoryRow("Other Withdrawals", abs(get(es, "Other Withdrawals")),
                    computed_other_withdrawals),
        CategoryRow("Checks Paid", abs(get(es, "Checks Paid")), computed_checks),
        CategoryRow("Ending Balance", get(es, "Ending Balance"), computed_ending) >>

\* summary_data of the Citizens Bank branch
citizens_summary_data(df, es) ==
  LET computed_checks == type_sum(df, {"Checks"})
      computed_deposits == type_sum(df, {"Deposits"})
      computed_debits == type_sum(df, {"Debits"})
      computed_ending ==
        get(es, "Previous Balance") + computed_checks + computed_debits
          + computed_deposits
  IN << Row("Previous Balance", get(es, "Previous Balance"),
            get(es, "Previous Balance"), 0),
        CategoryRow("Checks", 0 - get(es, "Checks"), computed_checks),
        CategoryRow("Debits", 0 - get(es, "Debits"), computed_debits),
        CategoryRow("Deposits/Credits", get(es, "Deposits/Credits"), computed_deposits),
        CategoryRow("Current Balance", get(es, "Current Balance"), computed_ending) >>

\* summary_data of the Bank of America branch
boa_summary_data(df, es) ==
  LET computed_deposits == type_sum(df, {"Deposits"})
      computed_withdrawals == type_sum(df, {"Withdrawals"})
      computed_checks == type_sum(df, {"Checks"})
      computed_fees == type_sum(df, {"Service Fees"})
      computed_ending ==
        get(es, "Beginning Balance") + computed_deposits + computed_withdrawals
          + computed_checks + computed_fees
  IN << Row("Beginning Balance", get(es, "Beginning Balance"),
            get(es, "Beginning Balance"), 0),
        CategoryRow("Deposits/Credits", get(es, "Deposits/Credits"), computed_deposits),
        CategoryRow("Withdrawals/Debits", get(es, "Withdrawals/Debits"),
                    computed_withdrawals),
        CategoryRow("Checks", get(es, "Checks"), computed_checks),
        CategoryRow("Service Fees", get(es, "Service Fees"), computed_fees),
        CategoryRow("Ending Balance", get(es, "Ending Balance"), computed_ending) >>

\* summary_data of the Chase branch
chase_summary_data(df, es) ==
  LET computed_deposits == type_sum(df, {"Deposit"})
      computed_withdrawals ==
        abs(type_sum(df, {"ATM & Debit Withdrawal", "Electronic Withdrawal",
                          "Other Withdrawal"}))
      computed_checks == abs(type_sum(df, {"Checks Paid"}))
      computed_fees == abs(type_sum(df, {"Fee"}))
      computed_ending ==
        get(es, "Beginning Balance") + computed_deposits - computed_withdrawals
          - computed_checks - computed_fees
  IN << Row("Beginning Balance", get(es, "Beginning Balance"),
            get(es, "Beginning Balance"), 0),
        CategoryRow("Deposits", get(es, "Deposits"), computed_deposits),
        CategoryRow("Withdrawals", get(es, "Withdrawals"), computed_withdrawals),
        CategoryRow("Checks Paid", get(es, "Checks"), computed_checks),
        CategoryRow("Fees", get(es, "Fees"), computed_fees),
        CategoryRow("Ending Balance", get(es, "Ending Balance"), computed_ending) >>

\* "Computations for Validation (Bank-specific)"
compute_summary_data(name, df, es) ==
  CASE name = "US Bank" -> us_summary_data(df, es)
    [] name = "Citizens Bank" -> citizens_summary_data(df, es)
    [] name = "Bank of America" -> boa_summary_data(df, es)
    [] name = "Chase" -> chase_summary_data(df, es)
    [] OTHER -> <<>>


\* abs(difference) > 0.01, in cents
Tolerance == 1

exceeds(diff) == abs(diff) > Tolerance

\* a selection of the transactions dated before the balance row's date only
computed_balance_before(name, df, es, date_dt) ==
  LET UpTo(r) == to_datetime(r.Date) # NaT /\ to_datetime(r.Date) < date_dt
      rows == SelectSeq(df, UpTo)
  IN beg_bal(name, es)
       + sum([i \in 1..Len(rows) |-> standardize_sign(name, rows[i])])

\* beg_bal + transactions_up_to_date['SignedAmount'].sum(); a transaction
\* whose date is NaT is in no such selection
computed_balance(name, df, es, date_dt) ==
  LET UpTo(r) == to_datetime(r.Date) # NaT /\ to_datetime(r.Date) <= date_dt
      rows == SelectSeq(df, UpTo)
  IN beg_bal(name, es)
       + sum([i \in 1..Len(rows) |-> standardize_sign(name, rows[i])])

\* balance_df['Balance'] - balance_df['Computed'] on a row that has a date
balance_difference(name, df, es, row) ==
  row.Balance - computed_balance(name, df, es, to_datetime(row.Date))

\* balance_df after the loop: sorted by DateTime, a row with a date holds its
\* Computed and its Difference, a row without one holds neither
balance_table(name, df, es, bal) ==
  LET rows == sort_values(bal)
      Dated(r) == to_datetime(r.Date) # NaT
  IN [i \in 1..Len(rows) |->
        [Date |-> rows[i].Date, Balance |-> rows[i].Balance,
         Computed |-> IF Dated(rows[i])
                      THEN <<computed_balance(name, df, es, to_datetime(rows[i].Date))>>
                      ELSE <<>>,
         Difference |-> IF Dated(rows[i])
                        THEN <<balance_difference(name, df, es, rows[i])>>
                        ELSE <<>>]]

\* the loop "if pd.isna(date_dt): continue" never assigns the Computed column
\* when no row has a date, and balance_df['Computed'] raises
no_computed_column(bal) ==
  bal # <<>> /\ \A i \in 1..Len(bal) : to_datetime(bal[i].Date) = NaT

\* balance_diffs['Date'].tolist(): a row without a date has no difference
\* and is not listed
balance_diff_dates(name, df, es, bal) ==
  LET Off(r) == /\ to_datetime(r.Date) # NaT
                /\ exceeds(balance_difference(name, df, es, r))
      rows == SelectSeq(sort_values(bal), Off)
  IN [i \in 1..Len(rows) |-> rows[i].Date]

\* [d['Category'] for d in summary_data if abs(d['Difference']) > 0.01]
summary_diff_categories(rows) ==
  LET Off(d) == exceeds(d.Difference)
      off == SelectSeq(rows, Off)
  IN [i \in 1..Len(off) |-> off[i].Category]

\* a verdict that looks at the account summary only
passed_summary_only(sdiffs, bdiffs) == sdiffs = <<>>

\* "if not summary_diffs and not balance_summary_diffs"
passed(sdiffs, bdiffs) == sdiffs = <<>> /\ bdiffs = <<>>

\* one element of the page: st.success, st.error, st.warning, st.table,
\* st.dataframe or st.download_button
Msg(kind, text) == [kind |-> kind, text |-> text, categories |-> <<>>, dates |-> 0]

\* the FAILED message names the categories and counts the dates
FailedMsg(sdiffs, bdiffs) ==
  [kind |-> "error", text |-> "FAILED", categories |-> sdiffs, dates |-> Len(bdiffs)]

\* a page that exports no rows
display_txns_empty(name, df) == <<>>

\* df_sorted without the helper columns: by Extraction_Seq where the parser
\* numbers its rows, by date elsewhere
display_txns(name, df) == IF name = "US Bank" THEN df ELSE sort_values(df)

InitApp ==
  /\ NoWells
  /\ bank = "none"
  /\ pc = "upload"
  /\ page_num = 0
  /\ line = NoLine
  /\ current_section = NoSection
  /\ last_txn_index = None
  /\ transactions = <<>>
  /\ balances = <<>>
  /\ checking_summary = <<>>
  /\ extracted_summary = EmptyDict
  /\ in_summary = "no"
  /\ nlines = 0
  /\ last_header = current_section
  /\ sealed = 0
  /\ opened = 0
  /\ extraction_seq = 0
  /\ Extraction_Seq = <<>>
  /\ amount_str = <<>>
  /\ result = [fn |-> "none", v |-> 0]
  /\ pdf_file \in PdfFiles
  /\ page_text \in (IF pdf_file = "pages" THEN PageTexts ELSE {{}})
  /\ bank_name = ""
  /\ invoked = <<>>
  /\ summary_data = <<>>
  /\ summary_diffs = <<>>
  /\ balance_summary_diffs = <<>>
  /\ verdict = "none"
  /\ messages = <<>>
  /\ export = <<>>
  /\ balance_df = <<>>
  /\ document = <<>>
  /\ line_idx = 0
  /\ run = 0
  /\ first = <<>>

lineVars == <<page_num, line, current_section, last_txn_index, checking_summary,
              in_summary, extraction_seq, Extraction_Seq, nlines, last_header, sealed, opened, amount_str, result,
              runVars, wfVars>>

\* process_pdf calls identify_bank; the except branch reports the error
IdentifyBank ==
  /\ pc = "upload"
  /\ bank_name' = identify_bank(pdf_file, page_text)
  /\ messages' = IF pdf_file = "unreadable"
                 THEN Append(messages, Msg("error", "Error identifying bank"))
                 ELSE messages
  /\ pc' = "identified"
  /\ UNCHANGED <<bank, transactions, balances, extracted_summary, pdf_file, page_text,
                 invoked, summary_data, summary_diffs, balance_summary_diffs, verdict,
                 export, balance_df, lineVars>>

\* process_pdf routes to the parser of the bank; what the parser returns is
\* one of its possible results.  For any other name it reports the bank as
\* not supported and returns None, and the page shows nothing more.
ProcessPdf ==
  /\ pc = "identified"
  /\ IF ParserOf(bank_name) # ""
     THEN /\ bank' = ParserOf(bank_name)
          /\ invoked' = Append(invoked, bank')
          /\ transactions' \in ParsedTables(ParsedTxns(bank'), MaxTxns)
          /\ extracted_summary' \in ParsedSummaries(bank')
          /\ balances' \in ParsedTables(ParsedBalanceRows, MaxBal)
          /\ pc' = "parsed"
          /\ UNCHANGED messages
     ELSE /\ messages' = Append(messages, Msg("error", "Bank is not yet supported"))
          /\ pc' = "done"
          /\ UNCHANGED <<bank, invoked, transactions, extracted_summary, balances>>
  /\ UNCHANGED <<bank_name, pdf_file, page_text, summary_data, summary_diffs,
                 balance_summary_diffs, verdict, export, balance_df, lineVars>>

\* the page from "Identified as" to the validation check: an empty table
\* ends in the warning; otherwise the summary rows and the balance
\* differences are computed and the verdict is shown.  The exception of a
\* balance table without any date ends the run in "Error processing PDF".
Reconcile ==
  /\ pc = "parsed"
  /\ LET shown == Append(messages, Msg("success", "Identified as"))
         df == drop_unknown(transactions)
         rows == compute_summary_data(bank_name, df, extracted_summary)
         sdiffs == summary_diff_categories(rows)
         bdiffs == balance_diff_dates(bank_name, df, extracted_summary, balances)
     IN IF transactions = <<>>
        THEN /\ messages' = Append(shown, Msg("warning", "No transactions found"))
             /\ pc' = "done"
             /\ UNCHANGED <<transactions, summary_data, summary_diffs,
                            balance_summary_diffs, verdict, balance_df>>
        ELSE /\ transactions' = df
             /\ summary_data' = rows
             /\ balance_df' = balance_table(bank_name, df, extracted_summary, balances)
             /\ IF no_computed_column(balances)
                THEN /\ messages' =
                          shown \o << Msg("success", "Successfully extracted"),
                                      Msg("error", "Error processing PDF") >>
                     /\ pc' = "done"
                     /\ UNCHANGED <<summary_diffs, balance_summary_diffs, verdict>>
                ELSE /\ summary_diffs' = sdiffs
                     /\ balance_summary_diffs' = bdiffs
                     /\ verdict' = IF passed(sdiffs, bdiffs) THEN "PASSED" ELSE "FAILED"
                     /\ messages' =
                          shown \o << Msg("success", "Successfully extracted"),
                                      IF passed(sdiffs, bdiffs)
                                      THEN Msg("success", "PASSED")
                                      ELSE FailedMsg(sdiffs, bdiffs) >>
                     /\ pc' = "reconciled"
  /\ UNCHANGED <<bank, bank_name, pdf_file, page_text, invoked, balances,
                 extracted_summary, export, lineVars>>

\* the page after the verdict: the summary table, the transaction table,
\* the balance table when there are balances, and the two downloads
Display ==
  /\ pc = "reconciled"
  /\ export' = display_txns(bank_name, transactions)
  /\ messages' =
       messages
         \o << Msg("table", "Account Summary Comparison"),
               Msg("dataframe", "Transaction Details") >>
         \o (IF balances # <<>>
             THEN << Msg("table", "Daily Balance Summary Comparison") >> ELSE <<>>)
         \o << Msg("download", "Download as CSV"), Msg("download", "Download as JSON") >>
  /\ pc' = "done"
  /\ UNCHANGED <<bank, bank_name, pdf_file, page_text, invoked, transactions, balances,
                 extracted_summary, summary_data, summary_diffs, balance_summary_diffs,
                 verdict, balance_df, lineVars>>

NextApp == IdentifyBank \/ ProcessPdf \/ Reconcile \/ Display

SpecApp == InitApp /\ [][NextApp]_vars


(***************************************************************************)
(* Claims about the reconciliation in main_app.py                          *)
(***************************************************************************)
\* the transaction types that belong to a category of the comparison table
CategoryTypes(name, category) ==
  CASE name = "US Bank" -> {category}
    [] name = "Citizens Bank" ->
         (IF category = "Deposits/Credits" THEN {"Deposits"} ELSE {category})
    [] name = "Bank of America" ->
         (CASE category = "Deposits/Credits" -> {"Deposits"}
            [] category = "Withdrawals/Debits" -> {"Withdrawals"}
            [] OTHER -> {category})
    [] name = "Chase" ->
         (CASE category = "Deposits" -> {"Deposit"}
            [] category = "Withdrawals" ->
                 {"ATM & Debit Withdrawal", "Electronic Withdrawal", "Other Withdrawal"}
            [] category = "Fees" -> {"Fee"}
            [] OTHER -> {category})
    [] OTHER -> {}

\* the rows that state a balance and not the total of a category
BalanceCategories ==
  {"Beginning Balance", "Previous Balance", "Ending Balance", "Current Balance"}

\* the categories whose total is compared as a magnitude
MagnitudeCategories(name) ==
  CASE name = "US Bank" -> {"Card Withdrawals", "Other Withdrawals", "Checks Paid"}
    [] name = "Chase" -> {"Withdrawals", "Checks Paid", "Fees"}
    [] OTHER -> {}

Reconciled == pc \in {"reconciled", "done"} /\ summary_data # <<>>

OffCategories ==
  { summary_data[i].Category :
      i \in {k \in 1..Len(summary_data) : abs(summary_data[k].Difference) > Tolerance} }

\* the rows of the balance table that have a date and whose balance is more
\* than the tolerance away from the computed one
OffBalances ==
  { i \in 1..Len(balances) :
      /\ to_datetime(balances[i].Date) # NaT
      /\ abs(balances[i].Balance
               - computed_balance(bank_name, transactions, extracted_summary,
                                  to_datetime(balances[i].Date))) > Tolerance }

VerdictMessages ==
  { i \in 1..Len(messages) : messages[i].text \in {"PASSED", "FAILED"} }

Shown(kind, text) == \E i \in 1..Len(messages) : messages[i] = Msg(kind, text)

Occurrences(rows, r) == Cardinality({i \in 1..Len(rows) : rows[i] = r})

NoTextDocument == pdf_file \in {"unreadable", "no_text"}

Successes == {i \in 1..Len(messages) : messages[i].kind = "success"}

\* C26: a run on a document that is unreadable or has no extractable text
\* ends in the "No transactions found" outcome, shows no success message,
\* is not silent, and runs no reconciliation.
C26_ExplicitEmpty ==
  (pc = "done" /\ NoTextDocument) =>
    /\ Shown("warning", "No transactions found")
    /\ Successes = {}
    /\ messages # <<>>
    /\ verdict = "none"
    /\ summary_data = <<>>


(***************************************************************************)
(* Claims about the routing in main_app.py                                 *)
(***************************************************************************)
LooksLikeChase ==
  \/ "chase" \in page_text /\ ("jpmorgan" \in page_text \/ "chase bank" \in page_text)
  \/ "chase.com" \in page_text

LooksLikeUsBank == "u.s. bank" \in page_text \/ "us bank" \in page_text

LooksLikeBoa == "bank of america" \in page_text \/ "bofa" \in page_text

LooksLikeCitizens ==
  \/ "citizens bank" \in page_text /\ "first citizens bank" \notin page_text
  \/ "citizensbank.com" \in page_text

HasPages == pdf_file \in {"no_text", "pages"}

Routed == pc \in {"parsed", "reconciled", "done"}

\* C28: identify_bank returns Chase, US Bank, Bank of America, Citizens Bank
\* or Unknown, the first bank in that order whose test the text passes, and
\* Unknown when the file cannot be read; process_pdf calls the parser of
\* that bank and no other, and for Unknown it calls none and returns no data.
C28_Routing ==
  /\ bank_name \in {"", "Chase", "US Bank", "Bank of America", "Citizens Bank", "Unknown"}
  /\ bank_name = "" <=> pc = "upload"
  /\ bank_name # "" =>
       /\ bank_name = "Chase" <=> (HasPages /\ LooksLikeChase)
       /\ bank_name = "US Bank" <=> (HasPages /\ ~LooksLikeChase /\ LooksLikeUsBank)
       /\ bank_name = "Bank of America" <=>
            (HasPages /\ ~LooksLikeChase /\ ~LooksLikeUsBank /\ LooksLikeBoa)
       /\ bank_name = "Citizens Bank" <=>
            (HasPages /\ ~LooksLikeChase /\ ~LooksLikeUsBank /\ ~LooksLikeBoa
               /\ LooksLikeCitizens)
       /\ pdf_file = "unreadable" => bank_name = "Unknown"
  /\ ~Routed => invoked = <<>>
  /\ Routed =>
       /\ bank_name = "Chase" => invoked = <<"chase">>
       /\ bank_name = "US Bank" => invoked = <<"usbank">>
       /\ bank_name = "Bank of America" => invoked = <<"boa">>
       /\ bank_name = "Citizens Bank" => invoked = <<"citizens">>
       /\ bank_name = "Unknown" =>
            /\ invoked = <<>>
            /\ transactions = <<>> /\ balances = <<>> /\ extracted_summary = EmptyDict
            /\ summary_data = <<>> /\ export = <<>>

\* a statement that names Chase and US Bank alike has gone to the Chase
\* parser and has come back with transactions
C28_Witness ==
  /\ Routed
  /\ LooksLikeChase /\ LooksLikeUsBank
  /\ invoked = <<"chase">>
  /\ transactions # <<>>


(***************************************************************************)
(* Two calls of a parser on the same document: the first call reads the    *)
(* pages and returns, the second call starts from the function's entry and *)
(* reads the same pages again.                                             *)
(***************************************************************************)
MaxRunLines == 2

\* the pages with text of a document, MaxRunLines lines at most in all
RECURSIVE Documents(_, _, _)
Documents(b, pages, lines) ==
  IF pages = 0 \/ lines = 0 THEN {<<>>}
  ELSE {<<>>} \cup
       UNION { { <<page>> \o rest : rest \in Documents(b, pages - 1, lines - Len(page)) } :
                 page \in UNION {[1..k -> Lines(b)] : k \in 1..lines} }

\* current_section before the page loop
section_at_entry(b) ==
  IF b \in {"chase", "app"} THEN NoSection
  ELSE IF b = "bank2" THEN "Uncategorized" ELSE "Unknown"

\* the locals as the previous call left them
locals_kept(b, old) == old

\* the assignments at the top of the function: every local the loops read
\* starts from a constant
locals_at_entry(b, old) ==
  [ current_section |-> section_at_entry(b),
    last_txn_index |-> None,
    transactions |-> <<>>,
    balances |-> <<>>,
    checking_summary |-> <<>>,
    extracted_summary |-> EmptyDict,
    in_summary |-> "no" ]

Locals ==
  [ current_section |-> current_section,
    last_txn_index |-> last_txn_index,
    transactions |-> transactions,
    balances |-> balances,
    checking_summary |-> checking_summary,
    extracted_summary |-> extracted_summary,
    in_summary |-> in_summary ]

InitTwice ==
  /\ NoWells
  /\ bank \in Banks
  /\ document \in Documents(bank, MaxPages, MaxRunLines)
  /\ line_idx = 0
  /\ run = 1
  /\ first = <<>>
  /\ pc = "start"
  /\ page_num = 0
  /\ line = NoLine
  /\ current_section = section_at_entry(bank)
  /\ last_txn_index = None
  /\ transactions = <<>>
  /\ balances = <<>>
  /\ checking_summary = <<>>
  /\ extracted_summary = EmptyDict
  /\ in_summary = "no"
  /\ nlines = 0
  /\ last_header = current_section
  /\ sealed = 0
  /\ opened = 0
  /\ extraction_seq = 0
  /\ Extraction_Seq = <<>>
  /\ amount_str = <<>>
  /\ result = [fn |-> "none", v |-> 0]
  /\ pdf_file = "none"
  /\ page_text = {}
  /\ bank_name = ""
  /\ invoked = <<>>
  /\ summary_data = <<>>
  /\ summary_diffs = <<>>
  /\ balance_summary_diffs = <<>>
  /\ verdict = "none"
  /\ messages = <<>>
  /\ export = <<>>
  /\ balance_df = <<>>

PageRead == IF page_num = 0 THEN TRUE ELSE line_idx = Len(document[page_num])

\* the page loop moves to the next page of the document
DocumentPage ==
  /\ run \in {1, 2}
  /\ PageRead
  /\ page_num < Len(document)
  /\ TurnPage(TRUE)
  /\ line_idx' = 0
  /\ UNCHANGED <<document, run, first, amount_str, result, appVars, wfVars>>

\* the line loop reads the next line of the page
DocumentLine ==
  /\ run \in {1, 2}
  /\ page_num > 0
  /\ line_idx < Len(document[page_num])
  /\ ReadLine(document[page_num][line_idx + 1])
  /\ line_idx' = line_idx + 1
  /\ UNCHANGED <<document, run, first, amount_str, result, appVars, wfVars>>

\* the call returns after the last page; what the first call returns is kept
\* for the comparison
DocumentReturn ==
  /\ run \in {1, 2}
  /\ PageRead
  /\ page_num = Len(document)
  /\ Return
  /\ first' = IF run = 1 THEN <<transactions', balances', extracted_summary'>> ELSE first
  /\ UNCHANGED <<document, run, line_idx, amount_str, result, appVars, wfVars>>

\* the parser is called again on the same document
CallAgain ==
  /\ run = 1
  /\ pc = "done"
  /\ run' = 2
  /\ pc' = "start"
  /\ page_num' = 0
  /\ line_idx' = 0
  /\ line' = NoLine
  /\ LET entry == locals_at_entry(bank, Locals)
     IN /\ current_section' = entry.current_section
        /\ last_txn_index' = entry.last_txn_index
        /\ transactions' = entry.transactions
        /\ balances' = entry.balances
        /\ checking_summary' = entry.checking_summary
        /\ extracted_summary' = entry.extracted_summary
        /\ in_summary' = entry.in_summary
  /\ extraction_seq' = 0
  /\ Extraction_Seq' = <<>>
  /\ nlines' = 0
  /\ last_header' = current_section'
  /\ sealed' = 0
  /\ opened' = 0
  /\ UNCHANGED <<bank, document, first, amount_str, result, appVars, wfVars>>

NextTwice == DocumentPage \/ DocumentLine \/ DocumentReturn \/ CallAgain

SpecTwice == InitTwice /\ [][NextTwice]_vars

ContainsText(description, l) ==
  /\ l # <<>>
  /\ \E i \in 1..(Len(description) - Len(l) + 1) :
       SubSeq(description, i, i + Len(l) - 1) = l

RepeatBanks == {"boa", "chase"}

\* C29: a line read while a record is open, whose text is already in that
\* record's description, is not appended to it again.
C29_NoRepeat ==
  [][(/\ LineStep
      /\ bank \in RepeatBanks
      /\ OpenRecord # None
      /\ Len(transactions') = Len(transactions)
      /\ ContainsText(transactions[OpenRecord].Description, line')) =>
       Len(transactions'[OpenRecord].Description)
         <= Len(transactions[OpenRecord].Description)]_vars


\* the tokens that have the shape of a currency amount
CurrencyTokens == BoaAmounts \cup ChaseAmounts \cup Bank2Amounts

\* the line ends in a currency-shaped token
EndsInCurrency(l) == l # <<>> /\ l[Len(l)] \in CurrencyTokens

AmountFilterBanks == {"app", "bank2", "boa"}

\* C30: a line that ends in a currency-shaped token is never appended to the
\* description of a record as a continuation.
C30_NoAmountAppended ==
  [][(LineStep /\ bank \in AmountFilterBanks /\ EndsInCurrency(line')) =>
       \A i \in 1..Len(transactions) :
         transactions'[i].Description = transactions[i].Description]_vars


(***************************************************************************)
(* wells_fargo.py: identify_bank, the two Wells Fargo strategies and       *)
(* parse_wells_fargo                                                       *)
(***************************************************************************)
\* the phrases identify_bank looks for in the lower-cased text
WfPhrases == {"wellsfargo.com", "chase", "jpmorgan", "wells fargo", "bank of america"}

\* identify_bank_original of test_identify.py: the Chase test stands first
\* and the "wellsfargo.com" test is missing
identify_bank_original(text) ==
  IF "chase" \in text /\ "jpmorgan" \in text THEN "Chase"
  ELSE IF "wells fargo" \in text THEN "Wells Fargo"
  ELSE IF "bank of america" \in text THEN "Bank of America"
  ELSE "Unknown"

\* identify_bank(text) of wells_fargo.py
wf_identify_bank(text) ==
  IF "wellsfargo.com" \in text THEN "Wells Fargo"
  ELSE IF "chase" \in text /\ "jpmorgan" \in text THEN "Chase"
  ELSE IF "wells fargo" \in text THEN "Wells Fargo"
  ELSE IF "bank of america" \in text THEN "Bank of America"
  ELSE "Unknown"

\* a word of page.extract_words(): its text and its x0
Word(text, x0) == [text |-> text, x0 |-> x0]

\* an item of the document: a line of words in x order, the start of the
\* next page, or a page whose extraction raises
WfLine(words) == [kind |-> "line", words |-> words]
WfPageBreak == [kind |-> "page", words |-> <<>>]
WfRaise == [kind |-> "raise", words |-> <<>>]

MaxWfLines == 3

WfLines ==
  { WfLine(<<Word("Deposits", 50)>>),
    WfLine(<<Word("Withdrawals", 50)>>),
    WfLine(<<Word("Checks paid", 50)>>),
    WfLine(<<Word("Daily ending balance", 50)>>),
    WfLine(<<Word("04/01", 50), Word("4.50", 100), Word("Coffee", 150)>>),
    WfLine(<<Word("04/02", 50), Word("Rent", 100), Word("25.00", 480),
             Word("1,200.00", 530)>>),
    WfLine(<<Word("101", 50), Word("25.00", 100), Word("04/02", 150)>>),
    WfLine(<<Word("04/01", 50), Word("1,200.00", 100)>>),
    WfLine(<<Word("extra", 50), Word("note", 100)>>) }

WfItems == WfLines \cup {WfPageBreak, WfRaise}

WfDocuments == UNION { [1..n -> WfItems] : n \in 0..MaxWfLines }

\* the texts identify_bank is given, by the phrases they hold
WfTexts ==
  { {},
    {"wellsfargo.com"},
    {"wells fargo"},
    {"wellsfargo.com", "chase", "jpmorgan"},
    {"wells fargo", "chase", "jpmorgan"},
    {"chase", "jpmorgan", "bank of america"},
    {"chase", "wells fargo"},
    {"wells fargo", "bank of america"},
    {"bank of america"} }

\* extract_year_from_header finds no year in these texts
current_year == "2025"

\* the texts of the words of a line
Texts(words) == [i \in 1..Len(words) |-> words[i].text]

\* the keywords the lower-cased text of a word holds
wf_lower(t) ==
  CASE t = "Deposits" -> {"deposits"}
    [] t = "Withdrawals" -> {"withdrawals"}
    [] t = "Checks paid" -> {"checks paid"}
    [] t = "Daily ending balance" -> {"daily ending balance", "balance"}
    [] OTHER -> {}

\* key in line_lower
wf_in(keys, l) == \E i \in 1..Len(l) : wf_lower(l[i]) \cap keys # {}

\* [\d,]+\.\d{2}
WfAmounts == {"4.50", "25.00", "1,200.00"}

\* parse_amount(amount_str) of wells_fargo.py
wf_parse_amount(t) == bank2_parse_amount(t)

\* a transaction record and a balance record of wells_fargo.py
WfRec(date, desc, amount, category, strategy) ==
  [Date |-> <<date, current_year>>, Description |-> desc, Amount |-> amount,
   Category |-> category, Strategy |-> strategy]

WfBal(date, amount) == [Date |-> <<date, current_year>>, Balance |-> amount]

\* the if / elif chain over line_lower; the section stays when no test holds
wf_section(l, section) ==
  IF wf_in({"credits", "deposits"}, l) THEN "Credits"
  ELSE IF wf_in({"debits", "withdrawals"}, l) THEN "Debits"
  ELSE IF wf_in({"checks paid"}, l) THEN "Checks Paid"
  ELSE IF wf_in({"daily ledger balance", "daily ending balance"}, l)
       THEN "Balance History"
  ELSE IF wf_in({"average daily"}, l) THEN "Footer"
  ELSE section

\* "Page" in line or "Account number" in line or "Wells Fargo" in line
wf_noise(l) == \E i \in 1..Len(l) : l[i] \in {"Page", "Account number", "Wells Fargo"}

\* balance_pattern.findall(line), scanning from token i
RECURSIVE wf_balance_findall(_, _)
wf_balance_findall(l, i) ==
  IF i + 1 > Len(l) THEN <<>>
  ELSE IF l[i] \in Date5 /\ l[i + 1] \in WfAmounts
       THEN <<WfBal(l[i], wf_parse_amount(l[i + 1]))>> \o wf_balance_findall(l, i + 2)
       ELSE wf_balance_findall(l, i + 1)

\* check_pattern.findall(line), scanning from token i: number, amount, date
RECURSIVE wf_check_findall(_, _)
wf_check_findall(l, i) ==
  IF i + 2 > Len(l) THEN <<>>
  ELSE IF l[i] \in Numbers /\ l[i + 1] \in WfAmounts /\ l[i + 2] \in Date5
       THEN <<WfRec(l[i + 2], <<"Check #", l[i]>>, 0 - abs(wf_parse_amount(l[i + 1])),
                    "Checks Paid", "Regex")>>
            \o wf_check_findall(l, i + 3)
       ELSE wf_check_findall(l, i + 1)

\* txn_pattern.match(line): date, optional second date, amount, description
wf_txn_match(l) ==
  \/ Len(l) >= 3 /\ l[1] \in Date5 /\ l[2] \in WfAmounts
  \/ Len(l) >= 4 /\ l[1] \in Date5 /\ l[2] \in Date5 /\ l[3] \in WfAmounts

\* the record of a line txn_pattern matches
wf_txn_record(l, section) ==
  LET two == l[2] \in Date5
      date == IF two THEN l[2] ELSE l[1]
      at == IF two THEN 3 ELSE 2
      amount == wf_parse_amount(l[at])
  IN WfRec(date, SubSeq(l, at + 1, Len(l)),
           IF section \in {"Debits", "Checks Paid"} THEN 0 - abs(amount) ELSE abs(amount),
           section, "Regex")

\* is_summary
wf_is_summary(l) ==
  wf_in({"total", "balance", "summary", "credits", "debits", "checks paid"}, l)

\* transactions[-1]["Description"] += " " + line
wf_append(txns, l) ==
  [txns EXCEPT ![Len(txns)].Description = @ \o l]

\* the body of the line loop of parse_wells_fargo_regex
wf_regex_line(l, st) ==
  LET section == wf_section(l, st.section)
      now == [st EXCEPT !.section = section]
  IN IF wf_noise(l) THEN now
     ELSE IF section = "Balance History"
          THEN [now EXCEPT !.bals = @ \o wf_balance_findall(l, 1)]
     ELSE IF section = "Footer" THEN now
     ELSE IF section = "Checks Paid" /\ wf_check_findall(l, 1) # <<>>
          THEN [now EXCEPT !.txns = @ \o wf_check_findall(l, 1)]
     ELSE IF wf_txn_match(l)
          THEN [now EXCEPT !.txns = Append(@, wf_txn_record(l, section))]
     ELSE IF st.txns # <<>> /\ l # <<>>
          THEN IF section \in {"Checks Paid", "Balance History", "Footer"} THEN now
               ELSE IF wf_is_summary(l) THEN now
               ELSE [now EXCEPT !.txns = wf_append(@, l)]
     ELSE now

\* the page loop of parse_wells_fargo_regex from item i on; an exception ends
\* the loop and what was gathered is returned
RECURSIVE wf_regex_scan(_, _, _)
wf_regex_scan(pdf, i, st) ==
  IF i > Len(pdf) \/ pdf[i].kind = "raise" THEN st
  ELSE IF pdf[i].kind = "page" THEN wf_regex_scan(pdf, i + 1, st)
  ELSE wf_regex_scan(pdf, i + 1, wf_regex_line(Texts(pdf[i].words), st))

\* parse_wells_fargo_regex(pdf, current_year)
parse_wells_fargo_regex(pdf) ==
  LET st == wf_regex_scan(pdf, 1, [section |-> "Uncategorized", txns |-> <<>>,
                                   bals |-> <<>>])
  IN [txns |-> st.txns, bals |-> st.bals]


\* re.match(r'^(\d{1,2}/\d{1,2})', full_line_text)
wf_date_match(l) == l # <<>> /\ l[1] \in Date5

\* re.match(r'^-?[\d,]+\.\d{2}$', text)
wf_is_amount(t) == t \in WfAmounts

\* the amount words of the line that lie in the deposit or the withdrawal zone
wf_zone_words(words) ==
  LET InZone(w) == wf_is_amount(w.text) /\ 390 <= w.x0 /\ w.x0 < 515
  IN SelectSeq(words, InZone)

\* the record of a dated line: the last amount word inside a zone decides the
\* amount and the category, the words left of 400 make the description
wf_spatial_record(words) ==
  LET zone == wf_zone_words(words)
      w == zone[Len(zone)]
      val == wf_parse_amount(w.text)
      Left(x) == x.x0 < 400 /\ x.text # words[1].text
      deposit == w.x0 < 455
  IN WfRec(words[1].text, Texts(SelectSeq(words, Left)),
           IF deposit THEN abs(val) ELSE 0 - abs(val),
           IF deposit THEN "Deposits" ELSE "Withdrawals", "Spatial")

\* the first amount word right of 515, as a balance of the line's date
wf_spatial_balance(words) ==
  LET Right(w) == w.x0 > 515 /\ wf_is_amount(w.text)
      right == SelectSeq(words, Right)
  IN IF right = <<>> THEN <<>>
     ELSE <<WfBal(words[1].text, wf_parse_amount(right[1].text))>>

\* "Date" in full_line_text or "Balance" in full_line_text
wf_header_noise(l) == \E i \in 1..Len(l) : l[i] \in {"Date", "Balance"}

\* the body of the line loop of parse_wells_fargo_spatial
wf_spatial_line(words, st) ==
  IF wf_date_match(Texts(words))
  THEN IF wf_zone_words(words) # <<>>
       THEN [txns |-> Append(st.txns, wf_spatial_record(words)),
             bals |-> st.bals \o wf_spatial_balance(words)]
       ELSE st
  ELSE IF st.txns # <<>> /\ words # <<>> /\ words[1].x0 < 400
          /\ ~wf_header_noise(Texts(words))
       THEN [st EXCEPT !.txns = wf_append(@, Texts(words))]
  ELSE st

\* the page loop of parse_wells_fargo_spatial from item i on; the function
\* catches every exception itself and returns what was gathered
RECURSIVE wf_spatial_scan(_, _, _)
wf_spatial_scan(pdf, i, st) ==
  IF i > Len(pdf) \/ pdf[i].kind = "raise" THEN st
  ELSE IF pdf[i].kind = "page" THEN wf_spatial_scan(pdf, i + 1, st)
  ELSE wf_spatial_scan(pdf, i + 1, wf_spatial_line(pdf[i].words, st))

\* parse_wells_fargo_spatial(pdf, current_year)
parse_wells_fargo_spatial(pdf) ==
  wf_spatial_scan(pdf, 1, [txns |-> <<>>, bals |-> <<>>])

\* two empty lists
WfEmpty == [txns |-> <<>>, bals |-> <<>>]

\* a test that takes every regex result, the empty one too
regex_accepted_any(txns) == TRUE

\* "if txns:" after the regex strategy
regex_accepted(txns) == txns # <<>>

InitWells ==
  /\ wf_text \in WfTexts
  /\ wf_pdf \in WfDocuments
  /\ wf_pc = "upload"
  /\ wf_bank = ""
  /\ wf_calls = <<>>
  /\ wf_regex = <<>>
  /\ wf_spatial = <<>>
  /\ wf_returned = <<>>
  /\ wf_messages = <<>>
  /\ bank = "none"
  /\ pc = "wells"
  /\ page_num = 0
  /\ line = NoLine
  /\ current_section = "Unknown"
  /\ last_txn_index = None
  /\ transactions = <<>>
  /\ balances = <<>>
  /\ checking_summary = <<>>
  /\ extracted_summary = EmptyDict
  /\ in_summary = "no"
  /\ nlines = 0
  /\ last_header = current_section
  /\ sealed = 0
  /\ opened = 0
  /\ extraction_seq = 0
  /\ Extraction_Seq = <<>>
  /\ amount_str = <<>>
  /\ result = [fn |-> "none", v |-> 0]
  /\ NoUpload

otherVars == <<parserVars, amount_str, result, appVars, runVars>>

\* process_pdf of wells_fargo.py up to the call of a strategy: the bank is
\* identified from the text and the document is routed; parse_chase and
\* parse_boa of this file are not followed
WfProcessPdf ==
  /\ wf_pc = "upload"
  /\ wf_bank' = wf_identify_bank(wf_text)
  /\ IF wf_bank' = "Wells Fargo"
     THEN /\ wf_pc' = "regex"
          /\ wf_messages' = Append(wf_messages, "Detected")
          /\ UNCHANGED <<wf_calls, wf_returned>>
     ELSE IF wf_bank' \in {"Chase", "Bank of America"}
     THEN /\ wf_pc' = "other"
          /\ wf_messages' = Append(wf_messages, "Detected")
          /\ wf_calls' = Append(wf_calls, IF wf_bank' = "Chase" THEN "parse_chase"
                                          ELSE "parse_boa")
          /\ UNCHANGED wf_returned
     ELSE /\ wf_pc' = "returned"
          /\ wf_messages' = wf_messages \o <<"Detected", "Bank format not recognized">>
          /\ wf_returned' = WfEmpty
          /\ UNCHANGED wf_calls
  /\ UNCHANGED <<wf_text, wf_pdf, wf_regex, wf_spatial, otherVars>>

\* parse_wells_fargo, first part: the regex strategy runs and its result is
\* returned when it holds a transaction
WfRegex ==
  /\ wf_pc = "regex"
  /\ wf_regex' = parse_wells_fargo_regex(wf_pdf)
  /\ wf_calls' = Append(wf_calls, "parse_wells_fargo_regex")
  /\ IF regex_accepted(wf_regex'.txns)
     THEN /\ wf_messages' = Append(wf_messages, "Used Standard Regex Strategy")
          /\ wf_returned' = wf_regex'
          /\ wf_pc' = "returned"
     ELSE /\ wf_messages' = Append(wf_messages, "Switching to Spatial Logic")
          /\ wf_pc' = "spatial"
          /\ UNCHANGED wf_returned
  /\ UNCHANGED <<wf_text, wf_pdf, wf_bank, wf_spatial, otherVars>>

\* parse_wells_fargo, second part: the spatial strategy runs; its result is
\* returned when it holds a transaction, two empty lists otherwise
WfSpatial ==
  /\ wf_pc = "spatial"
  /\ wf_spatial' = parse_wells_fargo_spatial(wf_pdf)
  /\ wf_calls' = Append(wf_calls, "parse_wells_fargo_spatial")
  /\ IF wf_spatial'.txns # <<>>
     THEN /\ wf_messages' = Append(wf_messages, "Spatial Logic Successful")
          /\ wf_returned' = wf_spatial'
     ELSE /\ wf_returned' = WfEmpty
          /\ UNCHANGED wf_messages
  /\ wf_pc' = "returned"
  /\ UNCHANGED <<wf_text, wf_pdf, wf_bank, wf_regex, otherVars>>

NextWells == WfProcessPdf \/ WfRegex \/ WfSpatial

SpecWells == InitWells /\ [][NextWells]_vars


(***************************************************************************)
(* Claims about wells_fargo.py                                             *)
(***************************************************************************)
Called(name) == \E i \in 1..Len(wf_calls) : wf_calls[i] = name

\* C31: parse_wells_fargo runs the regex strategy first, runs the spatial
\* strategy exactly when the regex strategy returned no transaction, and
\* returns the regex result when it holds a transaction, else the spatial
\* result when that holds one, else two empty lists.
C31_StrategyOrder ==
  /\ Called("parse_wells_fargo_spatial") =>
       /\ Len(wf_calls) = 2
       /\ wf_calls[1] = "parse_wells_fargo_regex"
  /\ (wf_bank = "Wells Fargo" /\ wf_pc = "returned") =>
       /\ wf_calls[1] = "parse_wells_fargo_regex"
       /\ wf_regex = parse_wells_fargo_regex(wf_pdf)
       /\ Called("parse_wells_fargo_spatial") <=> (wf_regex.txns = <<>>)
       /\ wf_returned =
            IF wf_regex.txns # <<>> THEN wf_regex
            ELSE IF parse_wells_fargo_spatial(wf_pdf).txns # <<>>
                 THEN parse_wells_fargo_spatial(wf_pdf)
                 ELSE WfEmpty

\* the regex strategy found balances but no transaction, the spatial strategy
\* ran and its transactions were returned
C31_Witness ==
  /\ wf_pc = "returned"
  /\ wf_calls = <<"parse_wells_fargo_regex", "parse_wells_fargo_spatial">>
  /\ wf_regex.txns = <<>>
  /\ wf_regex.bals # <<>>
  /\ wf_returned = wf_spatial
  /\ wf_returned.txns # <<>>

RECURSIVE SignedUpTo(_, _)
SignedUpTo(n, d) ==
  IF n = 0 THEN 0
  ELSE SignedUpTo(n - 1, d)
         + (IF to_datetime(transactions[n].Date) # NaT
               /\ to_datetime(transactions[n].Date) <= d
            THEN standardize_sign(bank_name, transactions[n]) ELSE 0)

\* the daily balance check has run on a table of transactions
BalancesChecked == pc \in {"reconciled", "done"} /\ summary_data # <<>>

BankName(b) == CHOOSE name \in {"US Bank", "Citizens Bank", "Bank of America", "Chase"} :
                 ParserOf(name) = b

\* the labels of a section keyword map
SectionLabels(map) == {map[i].name : i \in 1..Len(map)}

\* the Chase and Bank of America labels that name withdrawals, checks or fees
OutflowLabels ==
  (SectionLabels(chase_section_keywords) \cup SectionLabels(boa_section_keywords))
    \ {"Checking Summary", "Deposit", "Daily Ending Balance", "Deposits", "Daily Ledger"}

\* C34: for Chase and Bank of America the SignedAmount of a record is
\* -|Amount| when its type names withdrawals, checks or fees and +|Amount|
\* otherwise; for US Bank and Citizens Bank it is the Amount; every Amount
\* of the Chase parser is non-negative.
C34_SignStandard ==
  bank \in ParserBanks =>
    \A i \in 1..Len(transactions) :
      LET row == transactions[i]
          SignedAmount == standardize_sign(BankName(bank), row)
      IN /\ bank \in {"chase", "boa"} =>
              SignedAmount = IF row.Type \in OutflowLabels THEN 0 - abs(row.Amount)
                             ELSE abs(row.Amount)
         /\ bank \in {"usbank", "citizens"} => SignedAmount = row.Amount
         /\ bank = "chase" => row.Amount >= 0

\* the Chase parser returned a withdrawal whose amount was printed with a
\* minus sign
C34_Witness ==
  /\ bank = "chase"
  /\ pc = "done"
  /\ \E i \in 1..Len(transactions) :
       transactions[i].Type \in OutflowLabels /\ transactions[i].Amount = 500


\* C35: in the Citizens parser a line the check pattern matches never changes
\* the current section, whatever section keywords it holds.
C35_CheckDataNoHeader ==
  [][(LineStep /\ bank = "citizens" /\ citizens_check_findall(line', 1) # <<>>) =>
       current_section' = current_section]_vars

\* a line of checks that ends in "TotalChecks" was read in the deposits
\* section, and the section is still the deposits section
C35_Witness ==
  /\ bank = "citizens"
  /\ citizens_check_findall(line, 1) # <<>>
  /\ In("Checks", line)
  /\ current_section = "Deposits"


\* the label of a checking-summary row names withdrawals or debits and holds
\* none of the words the tests before it look for
WithdrawalRow(row) ==
  /\ has_word(row.Description, "withdrawal") \/ has_word(row.Description, "debit")
  /\ \A w \in {"opening", "beginning", "closing", "ending", "deposit", "additions"} :
       ~has_word(row.Description, w)

\* the absolute amounts of the withdrawal rows among the first n rows
RECURSIVE WithdrawalTotal(_)
WithdrawalTotal(n) ==
  IF n = 0 THEN 0
  ELSE WithdrawalTotal(n - 1)
         + (IF WithdrawalRow(checking_summary[n]) THEN abs(checking_summary[n].Amount)
            ELSE 0)

\* C36: the "Withdrawals" value the Chase parser returns is the sum of the
\* absolute amounts of all checking-summary rows whose label names
\* withdrawals or debits; every other category holds the value of one row.
C36_WithdrawalsAccumulated ==
  (bank = "chase" /\ pc = "done") =>
    /\ "Withdrawals" \in DOMAIN extracted_summary
         <=> \E i \in 1..Len(checking_summary) : WithdrawalRow(checking_summary[i])
    /\ "Withdrawals" \in DOMAIN extracted_summary =>
         extracted_summary["Withdrawals"] = WithdrawalTotal(Len(checking_summary))
    /\ \A key \in DOMAIN extracted_summary \ {"Withdrawals"} :
         \E i \in 1..Len(checking_summary) :
           /\ ~WithdrawalRow(checking_summary[i])
           /\ chase_summary_key(checking_summary[i].Description) = key
           /\ extracted_summary[key] =
                IF key \in {"Beginning Balance", "Ending Balance"}
                THEN checking_summary[i].Amount
                ELSE abs(checking_summary[i].Amount)

\* the checking summary held two withdrawal rows and the parser returned
\* their sum
C36_Witness ==
  /\ bank = "chase"
  /\ pc = "done"
  /\ Cardinality({i \in 1..Len(checking_summary) : WithdrawalRow(checking_summary[i])}) = 2
  /\ extracted_summary["Withdrawals"] = 1000


\* df.sort_values('Extraction_Seq', ascending=True): the rows in the order of
\* their keys, rows with equal keys in the order they had
RECURSIVE SortBySeq(_, _)
SortBySeq(rows, keys) ==
  IF rows = <<>> THEN <<>>
  ELSE LET n == Len(rows)
           head == {i \in 1..(n - 1) : keys[i] <= keys[n]}
           Pick(S) == [i \in 1..Cardinality(S) |->
                         CHOOSE j \in S : Cardinality({m \in S : m < j}) = i - 1]
           front == Pick(head)
           back == Pick((1..(n - 1)) \ head)
           Sorted(idx) == SortBySeq([i \in 1..Len(idx) |-> rows[idx[i]]],
                                    [i \in 1..Len(idx) |-> keys[idx[i]]])
       IN Sorted(front) \o <<rows[n]>> \o Sorted(back)

\* C37: the i-th record the US Bank parser has built has Extraction_Seq = i:
\* the numbers start at 1, rise by one and are unique, and sorting the rows
\* by Extraction_Seq gives them in the order they were built.
C37_ExtractionSeq ==
  bank = "usbank" =>
    /\ Len(Extraction_Seq) = Len(transactions)
    /\ \A i \in 1..Len(Extraction_Seq) : Extraction_Seq[i] = i
    /\ SortBySeq(transactions, Extraction_Seq) = transactions

\* the US Bank parser returned three records, two of them from one line
C37_Witness ==
  /\ bank = "usbank"
  /\ pc = "done"
  /\ Len(transactions) = 3
  /\ extraction_seq = 3
  /\ nlines < 4


\* the value current_section has before any header of the parser was read
Unset == IF bank = "chase" THEN NoSection ELSE "Unknown"

\* a step of one of the four parsers: when it creates records it ends with
\* current_section set to a label of the keyword map, the records created
\* have that label as Type, and no record has the type of the unset section
KnownSectionStep ==
  bank \in ParserBanks =>
    /\ Len(transactions') > Len(transactions) =>
         /\ current_section' # Unset
         /\ current_section' \in SectionLabels(Keywords)
         /\ \A i \in (Len(transactions) + 1)..Len(transactions') :
              transactions'[i].Type = current_section'
    /\ \A i \in 1..Len(transactions') :
         /\ transactions'[i].Type \in SectionLabels(Keywords)
         /\ transactions'[i].Type # Unset
    /\ drop_unknown(transactions') = transactions'

\* C38: in the Chase, Bank of America, Citizens and US Bank parsers no record
\* is created while current_section is unset (None for Chase, "Unknown" for
\* the others): every record's Type is a label of the parser's keyword map,
\* and the filter of main_app.py on the type "Unknown" removes no row.
C38_KnownSection == [][KnownSectionStep]_vars

\* the Chase parser read a dated line with an amount before any header: the
\* section is unset and there is no record
C38_Witness ==
  /\ bank = "chase"
  /\ line = <<"04/01", "Coffee", "4.50">>
  /\ nlines >= 1
  /\ current_section = NoSection
  /\ transactions = <<>>


\* the step is the return of parse_chase_statement
ChaseReturns == bank = "chase" /\ pc # "done" /\ pc' = "done"

\* the year of the first record's date where it has one, "25" otherwise
FirstYear ==
  IF transactions # <<>> /\ Len(transactions[1].Date) = 3
  THEN transactions[1].Date[3] ELSE "25"

\* d is the date "was" followed by the year y, or "was" itself when that
\* already ends in the year y
WithYear(d, was, y) ==
  /\ Len(d) = 3
  /\ d[3] = y
  /\ d = was \/ (Len(was) = 2 /\ d = was \o <<y>>)

=============================================================================
